---- MODULE Spec2Model ----
(***************************************************************************)
(* Model of the query-building sessions of fresco-updates.                 *)
(*                                                                         *)
(* classes/base_widget_manager.py holds the state of the two forms (host   *)
(* table, job table), classes/widget_state_manager.py the handlers of the  *)
(* buttons and observers, classes/data_processor.py the column validators  *)
(* and the two query builders, classes/database_manager.py the backend     *)
(* access.  notebook_utilities.py is an older single-class variant of the  *)
(* same form; its host handlers are the NU_ actions.                       *)
(*                                                                         *)
(* Text is modelled by TLA+ strings: a character is SubSeq(s, i, i), and   *)
(* upper(), strip(), split(','), the validators' regular expressions and   *)
(* the builders' joins are computed character by character.                *)
(***************************************************************************)
EXTENDS Integers, Sequences, FiniteSets, TLC

(***************************************************************************)
(* Python str helpers                                                      *)
(***************************************************************************)
\* str.upper() and str.casefold() of one ASCII character
to_upper ==
    [a |-> "A", b |-> "B", c |-> "C", d |-> "D", e |-> "E", f |-> "F", g |-> "G", h |-> "H",
     i |-> "I", j |-> "J", k |-> "K", l |-> "L", m |-> "M", n |-> "N", o |-> "O", p |-> "P",
     q |-> "Q", r |-> "R", s |-> "S", t |-> "T", u |-> "U", v |-> "V", w |-> "W", x |-> "X",
     y |-> "Y", z |-> "Z"]
to_lower ==
    [A |-> "a", B |-> "b", C |-> "c", D |-> "d", E |-> "e", F |-> "f", G |-> "g", H |-> "h",
     I |-> "i", J |-> "j", K |-> "k", L |-> "l", M |-> "m", N |-> "n", O |-> "o", P |-> "p",
     Q |-> "q", R |-> "r", S |-> "s", T |-> "t", U |-> "u", V |-> "v", W |-> "w", X |-> "x",
     Y |-> "y", Z |-> "z"]
digits == {"0", "1", "2", "3", "4", "5", "6", "7", "8", "9"}

CharAt(s, i) == SubSeq(s, i, i)

\* c in s, for a single character c
CharIn(c, s) == \E i \in 1..Len(s) : CharAt(s, i) = c

upper_char(c) == IF c \in DOMAIN to_upper THEN to_upper[c] ELSE c

lower_char(c) == IF c \in DOMAIN to_lower THEN to_lower[c] ELSE c

\* s[i:] upper-cased
RECURSIVE upper_from(_, _)
upper_from(s, i) == IF i > Len(s) THEN "" ELSE upper_char(CharAt(s, i)) \o upper_from(s, i + 1)

upper(s) == upper_from(s, 1)

RECURSIVE casefold_from(_, _)
casefold_from(s, i) ==
    IF i > Len(s) THEN "" ELSE lower_char(CharAt(s, i)) \o casefold_from(s, i + 1)

casefold(s) == casefold_from(s, 1)

IsSpace(c) == c \in {" ", "\t", "\n", "\r"}

\* the first position from i on that holds no blank, Len(s) + 1 if there is none
RECURSIVE first_non_space(_, _)
first_non_space(s, i) ==
    IF i <= Len(s) /\ IsSpace(CharAt(s, i)) THEN first_non_space(s, i + 1) ELSE i

\* the last position up to i that holds no blank, 0 if there is none
RECURSIVE last_non_space(_, _)
last_non_space(s, i) ==
    IF i >= 1 /\ IsSpace(CharAt(s, i)) THEN last_non_space(s, i - 1) ELSE i

lstrip(s) == SubSeq(s, first_non_space(s, 1), Len(s))

rstrip(s) == SubSeq(s, 1, last_non_space(s, Len(s)))

strip(s) == rstrip(lstrip(s))

\* sub in s
Contains(s, sub) ==
    \E i \in 1..(Len(s) - Len(sub) + 1) : SubSeq(s, i, i + Len(sub) - 1) = sub

startswith(s, prefix) == Len(s) >= Len(prefix) /\ SubSeq(s, 1, Len(prefix)) = prefix

\* the pieces of s[start:] between the separators found from position i on
RECURSIVE split_from(_, _, _, _)
split_from(s, sep, start, i) ==
    IF i > Len(s) THEN <<SubSeq(s, start, Len(s))>>
    ELSE IF CharAt(s, i) = sep
         THEN <<SubSeq(s, start, i - 1)>> \o split_from(s, sep, i + 1, i + 1)
         ELSE split_from(s, sep, start, i + 1)

\* s.split(sep) for a single character sep: a sequence of one or more strings
split(s, sep) == split_from(s, sep, 1, 1)

\* sep.join(items)
RECURSIVE join(_, _)
join(sep, items) ==
    IF items = <<>> THEN ""
    ELSE IF Len(items) = 1 THEN items[1]
    ELSE items[1] \o sep \o join(sep, Tail(items))

\* how many of the positions in hits are taken going left to right, when a
\* position taken rules out the next width - 1
RECURSIVE count_from(_, _, _)
count_from(hits, width, i) ==
    LET rest == {k \in hits : k >= i}
    IN  IF rest = {} THEN 0
        ELSE 1 + count_from(hits, width, (CHOOSE k \in rest : \A j \in rest : k <= j) + width)

\* s.count(sub): the non-overlapping occurrences of sub in s, sub not empty
count(s, sub) ==
    count_from({k \in 1..(Len(s) - Len(sub) + 1) : SubSeq(s, k, k + Len(sub) - 1) = sub},
               Len(sub), 1)

AllDigits(s) == s # "" /\ \A i \in 1..Len(s) : CharAt(s, i) \in digits

\* re.match(r'^PREFIX\d+$', s)
MatchPrefixDigits(prefix, s) ==
    startswith(s, prefix) /\ AllDigits(SubSeq(s, Len(prefix) + 1, Len(s)))

\* float(s) does not raise ValueError: [sign] digits [. [digits]] | [sign] . digits,
\* each with an optional exponent, or inf / infinity / nan; surrounding blanks allowed
Unsigned(s) == IF s # "" /\ Head(s) \in {"+", "-"} THEN Tail(s) ELSE s

IsDecimal(s) ==
    \/ AllDigits(s)
    \/ \E i \in 1..Len(s) :
          /\ CharAt(s, i) = "."
          /\ LET int == SubSeq(s, 1, i - 1)
                 frac == SubSeq(s, i + 1, Len(s))
             IN  /\ int = "" \/ AllDigits(int)
                 /\ frac = "" \/ AllDigits(frac)
                 /\ int # "" \/ frac # ""

IsFloatBody(s) ==
    \/ IsDecimal(s)
    \/ \E i \in 1..Len(s) :
          /\ CharAt(s, i) \in {"e", "E"}
          /\ IsDecimal(SubSeq(s, 1, i - 1))
          /\ AllDigits(Unsigned(SubSeq(s, i + 1, Len(s))))
    \/ casefold(s) \in {"inf", "infinity", "nan"}

is_float(value) == IsFloatBody(Unsigned(strip(value)))

(***************************************************************************)
(* Values                                                                  *)
(***************************************************************************)
\* Python's None, where the other values of the variable are strings
None == "None"

\* A pandas DataFrame is its rows in order; a variable that may hold None
\* instead holds NoneFrame.
DataFrame(rows) == [kind |-> "DataFrame", rows |-> rows]
NoneFrame == [kind |-> "None", rows |-> <<>>]

\* A datetime is named by its text; Hours gives its place on the time line, in
\* hours since 2024-01-01 00:00:00.
Hours(dt) ==
    CASE dt = "2024-01-01 00:00:00" -> 0
      [] dt = "2024-01-10 00:00:00" -> 216
      [] dt = "2024-02-01 12:00:00" -> 756
      [] dt = "2024-03-01 00:00:00" -> 1440
      [] dt = "2024-06-29 12:00:00" -> 4332
      [] dt = "2024-06-30 00:00:00" -> 4344

\* variant: a started day counts as a whole day
started_days(start, end) == (Hours(end) - Hours(start) + 23) \div 24

\* (end - start).days: timedelta normalises to days plus a non-negative rest
timedelta_days(start, end) ==
    LET h == Hours(end) - Hours(start)
    IN  IF h >= 0 THEN h \div 24 ELSE -(((-h) + 23) \div 24)

\* An ipywidgets Output: clear_output(wait=True) only marks the content to be
\* replaced by the next thing shown in the widget.
EmptyOutput == [outputs |-> <<>>, clear_next |-> FALSE]

clear_output(out) == [out EXCEPT !.clear_next = TRUE]

print_to(out, item) ==
    [outputs |-> IF out.clear_next THEN <<item>> ELSE Append(out.outputs, item),
     clear_next |-> FALSE]

(***************************************************************************)
(* classes/data_processor.py: column validators.  Each returns an error    *)
(* message, or None when the value is accepted.                            *)
(***************************************************************************)
\* every comma-separated token, stripped and upper-cased, is prefix + digits
\* variant: only the first token is matched
FirstTokenMatches(prefix, value) ==
    MatchPrefixDigits(prefix, upper(strip(split(value, ",")[1])))

AllTokensMatch(prefix, value) ==
    LET tokens == split(value, ",")
    IN  \A i \in 1..Len(tokens) : MatchPrefixDigits(prefix, upper(strip(tokens[i])))

validate_jid(value) ==
    IF AllTokensMatch("JOB", value) THEN None
    ELSE "Error: For 'jid', value must be a comma-separated list of strings starting with 'JOB' followed by one or more digits."

validate_numeric_columns(column, value) ==
    IF is_float(value) THEN None
    ELSE "Error: For '" \o column \o "', value must be a number (including decimals)."

validate_account(value) ==
    IF AllTokensMatch("GROUP", value) THEN None
    ELSE "Error: For 'account', value must be a comma-separated list of strings starting with 'GROUP' followed by one or more digits."

validate_username(value) ==
    IF AllTokensMatch("USER", value) THEN None
    ELSE "Error: For 'username', value must be a comma-separated list of strings starting with 'USER' followed by one or more digits."

validate_host_list(value) ==
    IF AllTokensMatch("NODE", value) THEN None
    ELSE "Error: For 'host_list', value must be a comma-separated list of strings starting with 'NODE' followed by one or more digits."

validate_jobname(value) ==
    IF AllTokensMatch("JOBNAME", value) THEN None
    ELSE "Error: For job name, value must be a comma-separated list of strings starting with 'JOBNAME' followed by one or more digits."

validate_event(value) ==
    IF value \in {"cpuuser", "block", "memused", "memused_minus_diskcache", "gpu_usage", "nfs"}
    THEN None
    ELSE "Error: For 'event', value must be one of: cpuuser, block, memused, memused_minus_diskcache, gpu_usage, nfs."

validate_host(value) ==
    IF AllTokensMatch("NODE", value) THEN None
    ELSE "Error: For 'host', value must be a comma-separated list of strings starting with 'NODE' followed by one or more digits."

validate_unit(value) ==
    IF value \in {"CPU %", "GPU %", "GB:memused", "GB:memused_minus_diskcache", "GB/s", "MB/s"}
    THEN None
    ELSE "Error: For 'unit', value must be one of: 'CPU %', 'GPU %', 'GB:memused', 'GB:memused_minus_diskcache', 'GB/s', 'MB/s'."

validate_value(value) ==
    IF is_float(value) THEN None ELSE "Error: For 'value', the value must be a number."

validate_condition_jobs(column, value) ==
    IF column = "jid" THEN validate_jid(value)
    ELSE IF column \in {"ncores", "ngpus", "nhosts", "timelimit"}
         THEN validate_numeric_columns(column, value)
    ELSE IF column = "account" THEN validate_account(value)
    ELSE IF column = "username" THEN validate_username(value)
    ELSE IF column = "host_list" THEN validate_host_list(value)
    ELSE IF column = "jobname" THEN validate_jobname(value)
    ELSE None

\* variant: every value is accepted
accept_any(column, value) == None

validate_condition_hosts(column, value) ==
    IF column = "event" THEN validate_event(value)
    ELSE IF column = "host" THEN validate_host(value)
    ELSE IF column = "jid" THEN validate_jid(value)
    ELSE IF column = "unit" THEN validate_unit(value)
    ELSE IF column = "value" THEN validate_value(value)
    ELSE None

(***************************************************************************)
(* classes/data_processor.py: the query builders.  A condition is the      *)
(* tuple <<column, operator, value>>.  `bwm` is the form the builder reads *)
(* through self.base_widget_manager.                                       *)
(***************************************************************************)
\* [f"{col} {op} {val}" for col, op, val in local_conditions]
RenderConditions(local_conditions) ==
    [i \in 1..Len(local_conditions) |->
        local_conditions[i][1] \o " " \o local_conditions[i][2] \o " " \o local_conditions[i][3]]

\* [value.strip() for value in textarea.split(',')]
in_values_of(textarea) ==
    LET raw == split(textarea, ",") IN [i \in 1..Len(raw) |-> strip(raw[i])]

\* variant: one placeholder whatever the number of values
single_placeholder(in_values) == "%s"

\* ', '.join(['%s'] * len(in_values))
in_clause_of(in_values) == join(", ", [i \in 1..Len(in_values) |-> "%s"])

construct_query_hosts(where_conditions_hosts_, host_data_columns_dropdown_, validate_button_hosts_, start_time_hosts_, end_time_hosts_, bwm) ==
    LET selected_columns == join(", ", host_data_columns_dropdown_)
        select == IF bwm.distinct_checkbox
                  THEN "SELECT DISTINCT " \o selected_columns \o " FROM host_data"
                  ELSE "SELECT " \o selected_columns \o " FROM host_data"
        timed == validate_button_hosts_ = "Times Valid"
        in_values == in_values_of(bwm.in_values_textarea)
        has_in == in_values # <<>> /\ in_values[1] # ""
        local_conditions ==
            where_conditions_hosts_
            \o (IF timed THEN << <<"time", "BETWEEN", "%s AND %s">> >> ELSE <<>>)
            \o (IF has_in
                THEN << <<bwm.in_values_dropdown, "IN", "(" \o in_clause_of(in_values) \o ")">> >>
                ELSE <<>>)
        params ==
            bwm.where_conditions_values
            \o (IF timed THEN <<start_time_hosts_, end_time_hosts_>> ELSE <<>>)
            \o (IF has_in THEN in_values ELSE <<>>)
        where == IF local_conditions # <<>>
                 THEN " WHERE " \o join(" AND ", RenderConditions(local_conditions))
                 ELSE ""
        order == IF bwm.order_by_dropdown # "None"
                 THEN " ORDER BY " \o bwm.order_by_dropdown \o " " \o bwm.order_by_direction_dropdown
                 ELSE ""
        limit == IF bwm.limit_input > 0 THEN " LIMIT " \o ToString(bwm.limit_input) ELSE ""
    IN  [query |-> select \o where \o order \o limit, params |-> params]

valid_columns ==
    {"jid", "submit_time", "start_time", "end_time", "runtime", "timelimit", "node_hrs",
     "nhosts", "ncores", "ngpus", "username", "account", "queue", "state", "jobname",
     "exitcode", "host_list", "*"}

\* raises ValueError("Invalid column name selected")
construct_job_data_query_raises(job_data_columns_dropdown_) ==
    ~ \A i \in 1..Len(job_data_columns_dropdown_) : job_data_columns_dropdown_[i] \in valid_columns

construct_job_data_query(where_conditions_jobs_, job_data_columns_dropdown_, validate_button_jobs_, start_time_jobs_, end_time_jobs_, bwm) ==
    LET selected_columns_str == join(", ", job_data_columns_dropdown_)
        select == IF bwm.distinct_checkbox_jobs
                  THEN "SELECT DISTINCT " \o selected_columns_str \o " FROM job_data"
                  ELSE "SELECT " \o selected_columns_str \o " FROM job_data"
        timed == validate_button_jobs_ = "Times Valid"
        in_values == in_values_of(bwm.in_values_textarea_jobs)
        has_in == in_values # <<>> /\ in_values[1] # ""
        local_conditions ==
            [i \in 1..Len(where_conditions_jobs_) |->
                <<where_conditions_jobs_[i][1], where_conditions_jobs_[i][2], "%s">>]
            \o (IF timed THEN << <<"start_time", "BETWEEN", "%s AND %s">> >> ELSE <<>>)
            \o (IF has_in
                THEN << <<bwm.in_values_dropdown_jobs, "IN", "(" \o in_clause_of(in_values) \o ")">> >>
                ELSE <<>>)
        params ==
            [i \in 1..Len(where_conditions_jobs_) |-> where_conditions_jobs_[i][3]]
            \o (IF timed THEN <<start_time_jobs_, end_time_jobs_>> ELSE <<>>)
            \o (IF has_in THEN in_values ELSE <<>>)
        where == IF local_conditions # <<>>
                 THEN " WHERE " \o join(" AND ", RenderConditions(local_conditions))
                 ELSE ""
        order == IF bwm.order_by_dropdown_jobs # "None"
                 THEN " ORDER BY " \o bwm.order_by_dropdown_jobs \o " "
                      \o bwm.order_by_direction_dropdown_jobs
                 ELSE ""
        limit == IF bwm.limit_input_jobs > 0 THEN " LIMIT " \o ToString(bwm.limit_input_jobs) ELSE ""
    IN  [query |-> select \o where \o order \o limit, params |-> params]

(***************************************************************************)
(* classes/database_manager.py: the backend.  `db` is what the backend     *)
(* does with one execution: whether connecting succeeds, whether it        *)
(* accepts the query, the rows the query selects, whether the pandas in    *)
(* use yields one empty frame for an empty result, whether the            *)
(* DatabaseManager in use has delete_query_results_file, which fetch of a  *)
(* batch fails, if any, and whether the interpreter finalizes the          *)
(* connection object when the function returns.                            *)
(***************************************************************************)
target_num_chunks == 25000

\* the batches pd.read_sql(chunksize=...) yields: fetchmany(chunksize) until no row is left
RECURSIVE read_sql_chunks(_, _)
read_sql_chunks(rows, chunksize) ==
    IF rows = <<>> \/ chunksize <= 0 THEN <<>>
    ELSE IF Len(rows) <= chunksize THEN <<rows>>
    ELSE <<SubSeq(rows, 1, chunksize)>> \o read_sql_chunks(SubSeq(rows, chunksize + 1, Len(rows)), chunksize)

\* pd.concat(chunks, ignore_index=True)
RECURSIVE concat(_)
concat(chunks) == IF chunks = <<>> THEN <<>> ELSE Head(chunks) \o concat(Tail(chunks))

\* cursor.execute(query, params) fails unless every placeholder has its parameter
backend_accepts(query, params, db) == db.query_ok /\ count(query, "%s") = Len(params)

\* a call the backend receives
DbCall(op, query, params) == [op |-> op, query |-> query, params |-> params]

\* chunksize of execute_sql_query_chunked
chunksize_chunked(total_rows, target) ==
    IF total_rows > target THEN total_rows \div target ELSE total_rows

\* chunksize of execute_sql_query_and_stream_to_disk: max(1, total_rows // target_num_chunks)
chunksize_streamed(total_rows, target) ==
    IF total_rows \div target > 1 THEN total_rows \div target ELSE 1

\* the batches the loop receives before a fetch raises (db.fetch_fails_at = k:
\* the fetch of batch k raises; 0: no fetch raises)
fetched(yielded, db) ==
    IF db.fetch_fails_at \in 1..Len(yielded)
    THEN SubSeq(yielded, 1, db.fetch_fails_at - 1) ELSE yielded

fetch_raises(yielded, db) == db.fetch_fails_at \in 1..Len(yielded)

\* pbar.n after each pbar.update(len(chunk))
progress_of(chunks) == [k \in 1..Len(chunks) |-> Len(concat(SubSeq(chunks, 1, k)))]

\* the connection once the function has returned.  Neither function calls
\* conn.close(), and leaving 'with conn:' commits or rolls back without
\* closing; the connection is closed only if the interpreter finalizes the
\* connection object when the frame is dropped (db.finalizes).
connection_after(db) ==
    IF ~db.connect THEN None ELSE IF db.finalizes THEN "closed" ELSE "open"

\* result: the DataFrame returned, or NoneFrame; printed: what it prints;
\* calls: the calls it makes to the backend; progress: what the progress bar
\* counts after each batch; connection: the connection after the return
execute_sql_query_chunked(query, params, target, db) ==
    LET count_query == "SELECT COUNT(*) FROM (" \o query \o ") as sub_query"
        total_rows == Len(db.rows)
        chunksize == chunksize_chunked(total_rows, target)
        yielded == IF total_rows = 0
                   THEN (IF db.empty_frame THEN << <<>> >> ELSE <<>>)
                   ELSE read_sql_chunks(db.rows, chunksize)
        chunks == fetched(yielded, db)
    IN  IF ~db.connect
        THEN [result |-> NoneFrame,
              printed |-> <<"An error occurred: could not connect", "An error occurred: __enter__">>,
              calls |-> <<DbCall("connect", "", <<>>)>>,
              progress |-> <<>>, connection |-> connection_after(db)]
        ELSE IF ~backend_accepts(count_query, params, db)
        THEN [result |-> NoneFrame,
              printed |-> <<"An error occurred: query failed">>,
              calls |-> <<DbCall("connect", "", <<>>), DbCall("execute", count_query, params)>>,
              progress |-> <<>>, connection |-> connection_after(db)]
        ELSE IF fetch_raises(yielded, db)
        THEN [result |-> NoneFrame,
              printed |-> <<"An error occurred: fetch failed">>,
              calls |-> <<DbCall("connect", "", <<>>), DbCall("execute", count_query, params),
                          DbCall("read_sql", query, params)>>,
              progress |-> progress_of(chunks), connection |-> connection_after(db)]
        ELSE IF chunks = <<>>
        THEN [result |-> NoneFrame,
              printed |-> <<"An error occurred: No objects to concatenate">>,
              calls |-> <<DbCall("connect", "", <<>>), DbCall("execute", count_query, params),
                          DbCall("read_sql", query, params)>>,
              progress |-> <<>>, connection |-> connection_after(db)]
        ELSE [result |-> DataFrame(concat(chunks)),
              printed |-> <<>>,
              calls |-> <<DbCall("connect", "", <<>>), DbCall("execute", count_query, params),
                          DbCall("read_sql", query, params)>>,
              progress |-> progress_of(chunks), connection |-> connection_after(db)]

\* utilities/memory_utils.py: shutil.disk_usage("/").free, in bytes
get_disk_space(disk) == disk.free

\* chunk.to_csv(index=False) of a result with the one column host: the header
\* line, then a line per row; its length is its size in bytes
RECURSIVE csv_lines(_)
csv_lines(chunk) == IF chunk = <<>> THEN "" ELSE Head(chunk) \o "\n" \o csv_lines(Tail(chunk))

to_csv(chunk) == "host\n" \o csv_lines(chunk)

\* variant: a batch that exactly fills the free space is written too
fits_or_fills(total_space_used, csv_size, free_disk_space) ==
    total_space_used + csv_size <= free_disk_space

\* the disk-space check before a batch is written
fits(total_space_used, csv_size, free_disk_space) ==
    total_space_used + csv_size < free_disk_space

\* the loop over the batches from chunk_number on: the files it writes, what
\* it prints, the progress it reports, and whether it returns from the loop
RECURSIVE write_chunks(_, _, _, _, _)
write_chunks(chunks, chunk_number, total_space_used, free_disk_space, file_prefix) ==
    IF chunk_number >= Len(chunks)
    THEN [files |-> <<>>, printed |-> <<>>, progress |-> <<>>, returned |-> FALSE]
    ELSE LET chunk == chunks[chunk_number + 1]
             csv_string == to_csv(chunk)
             csv_size == Len(csv_string)
             file_path == file_prefix \o "_" \o ToString(chunk_number) \o ".csv"
             rest == write_chunks(chunks, chunk_number + 1, total_space_used + csv_size,
                                  free_disk_space, file_prefix)
         IN  IF fits(total_space_used, csv_size, free_disk_space)
             THEN [files |-> <<[file_path |-> file_path, content |-> csv_string]>> \o rest.files,
                   printed |-> rest.printed,
                   progress |-> <<Len(chunk)>> \o rest.progress,
                   returned |-> rest.returned]
             ELSE [files |-> <<>>,
                   printed |-> <<"Not enough disk space to write chunk "
                                 \o ToString(chunk_number) \o ". Ending process.">>,
                   progress |-> <<>>,
                   returned |-> TRUE]

\* pbar.n after each pbar.update, from the rows each update adds
RECURSIVE running_total(_, _)
running_total(updates, n) ==
    IF updates = <<>> THEN <<>>
    ELSE <<n + Head(updates)>> \o running_total(Tail(updates), n + Head(updates))

\* result: what the method returns (None on every path); files: the files
\* it leaves in output_directory; printed, calls, progress, connection as for
\* execute_sql_query_chunked
execute_sql_query_and_stream_to_disk(query, file_prefix, params, target, db, disk) ==
    LET count_query == "SELECT COUNT(*) FROM (" \o query \o ") as sub_query"
        total_rows == Len(db.rows)
        chunksize == chunksize_streamed(total_rows, target)
        yielded == IF total_rows = 0
                   THEN (IF db.empty_frame THEN << <<>> >> ELSE <<>>)
                   ELSE read_sql_chunks(db.rows, chunksize)
        free_disk_space == get_disk_space(disk)
        loop == write_chunks(fetched(yielded, db), 0, 0, free_disk_space, file_prefix)
    IN  IF ~db.connect
        THEN [result |-> NoneFrame,
              printed |-> <<"An error occurred: could not connect", "An error occurred: __enter__">>,
              calls |-> <<DbCall("connect", "", <<>>)>>,
              files |-> <<>>, progress |-> <<>>, connection |-> connection_after(db)]
        ELSE IF ~backend_accepts(count_query, params, db)
        THEN [result |-> NoneFrame,
              printed |-> <<"An error occurred: query failed">>,
              calls |-> <<DbCall("connect", "", <<>>), DbCall("execute", count_query, params)>>,
              files |-> <<>>, progress |-> <<>>, connection |-> connection_after(db)]
        ELSE [result |-> NoneFrame,
              printed |-> IF ~loop.returned /\ fetch_raises(yielded, db)
                          THEN <<"An error occurred: fetch failed">>
                          ELSE loop.printed,
              calls |-> <<DbCall("connect", "", <<>>), DbCall("execute", count_query, params),
                          DbCall("read_sql", query, params)>>,
              files |-> loop.files,
              progress |-> running_total(loop.progress, 0),
              connection |-> connection_after(db)]

\* self.db_service.delete_query_results_file(): the handlers call it, and
\* classes/database_manager.py does not define it.  With the DatabaseManager
\* of classes/database_manager.py the call raises AttributeError
\* (db.deletes = FALSE); with a DatabaseManager that has the method it removes
\* the file a previous streamed execution left, touches nothing the forms
\* hold, and returns (db.deletes = TRUE).  TRUE when the call returns.
delete_query_results_file(db) == db.deletes

NoDeleteMethod ==
    "An error occurred: 'DatabaseManager' object has no attribute 'delete_query_results_file'"

(***************************************************************************)
(* State: classes/base_widget_manager.py                                   *)
(***************************************************************************)
VARIABLES
    form,                          \* the form the analyst works in: "hosts" or "jobs"
    \* host table form
    where_conditions_hosts, where_conditions_values, condition_list_hosts,
    time_window_valid_hosts, validate_button_hosts, start_time_hosts, end_time_hosts,
    host_data_columns_dropdown, distinct_checkbox, order_by_dropdown,
    order_by_direction_dropdown, limit_input, in_values_dropdown, in_values_textarea,
    error_output_hosts, output_hosts, query_output_hosts, host_data_sql_query, time_series_df,
    \* job table form
    where_conditions_jobs, condition_list_jobs,
    time_window_valid_jobs, validate_button_jobs, start_time_jobs, end_time_jobs,
    job_data_columns_dropdown, distinct_checkbox_jobs, order_by_dropdown_jobs,
    order_by_direction_dropdown_jobs, limit_input_jobs, in_values_dropdown_jobs,
    in_values_textarea_jobs,
    error_output_jobs, output_jobs, query_output_jobs, account_log_df,
    \* the calls the handler that ran last made to the backend
    db_calls,
    \* a direct call of a DatabaseManager method: its arguments, what the
    \* backend and the disk do with it, and, once it has returned, its outcome
    execution

hosts_conditions == <<where_conditions_hosts, where_conditions_values, condition_list_hosts>>
hosts_window == <<time_window_valid_hosts, validate_button_hosts>>
hosts_times == <<start_time_hosts, end_time_hosts>>
hosts_options == <<host_data_columns_dropdown, distinct_checkbox, order_by_dropdown,
                   order_by_direction_dropdown, limit_input, in_values_dropdown, in_values_textarea>>
hosts_query == <<query_output_hosts, host_data_sql_query>>
hosts_vars == <<hosts_conditions, hosts_window, hosts_times, hosts_options, hosts_query,
                error_output_hosts, output_hosts, time_series_df>>

jobs_conditions == <<where_conditions_jobs, condition_list_jobs>>
jobs_window == <<time_window_valid_jobs, validate_button_jobs>>
jobs_times == <<start_time_jobs, end_time_jobs>>
jobs_options == <<job_data_columns_dropdown, distinct_checkbox_jobs, order_by_dropdown_jobs,
                  order_by_direction_dropdown_jobs, limit_input_jobs, in_values_dropdown_jobs,
                  in_values_textarea_jobs>>
jobs_vars == <<jobs_conditions, jobs_window, jobs_times, jobs_options, query_output_jobs,
               error_output_jobs, output_jobs, account_log_df>>

vars == <<form, hosts_vars, jobs_vars, db_calls, execution>>

MAX_DAYS_HOSTS == 31
MAX_DAYS_JOBS == 180

\* datetime.now().replace(microsecond=0) when the forms are built
now == "2024-01-01 00:00:00"

init_non_widget_variables ==
    /\ where_conditions_values = <<>>
    /\ where_conditions_jobs = <<>>
    /\ time_window_valid_jobs = FALSE
    /\ account_log_df = DataFrame(<<>>)
    /\ host_data_sql_query = [query |-> "", params |-> <<>>]
    /\ where_conditions_hosts = <<>>
    /\ time_window_valid_hosts = FALSE
    /\ time_series_df = DataFrame(<<>>)

initialize_host_data_widgets ==
    /\ error_output_hosts = EmptyOutput
    /\ output_hosts = EmptyOutput
    /\ query_output_hosts = EmptyOutput
    /\ host_data_columns_dropdown = <<"*">>
    /\ start_time_hosts = now
    /\ end_time_hosts = now
    /\ validate_button_hosts = "Validate Dates"
    /\ condition_list_hosts = <<>>
    /\ distinct_checkbox = FALSE
    /\ order_by_dropdown = "None"
    /\ order_by_direction_dropdown = "ASC"
    /\ limit_input = 0
    /\ in_values_dropdown = "None"
    /\ in_values_textarea = ""

initialize_job_data_widgets ==
    /\ output_jobs = EmptyOutput
    /\ query_output_jobs = EmptyOutput
    /\ error_output_jobs = EmptyOutput
    /\ job_data_columns_dropdown = <<"*">>
    /\ start_time_jobs = now
    /\ end_time_jobs = now
    /\ validate_button_jobs = "Validate Dates"
    /\ condition_list_jobs = <<>>
    /\ distinct_checkbox_jobs = FALSE
    /\ limit_input_jobs = 0
    /\ order_by_dropdown_jobs = "None"
    /\ order_by_direction_dropdown_jobs = "ASC"
    /\ in_values_dropdown_jobs = "None"
    /\ in_values_textarea_jobs = ""

\* no DatabaseManager method is called directly
NoExecution == [pc |-> "none"]

Init ==
    /\ form \in {"hosts", "jobs"}
    /\ init_non_widget_variables
    /\ initialize_host_data_widgets
    /\ initialize_job_data_widgets
    /\ db_calls = <<>>
    /\ execution = NoExecution

\* the form as the builders read it through self.base_widget_manager
HostsForm ==
    [where_conditions_hosts |-> where_conditions_hosts,
     where_conditions_values |-> where_conditions_values,
     validate_button_hosts |-> validate_button_hosts,
     start_time_hosts |-> start_time_hosts,
     end_time_hosts |-> end_time_hosts,
     host_data_columns_dropdown |-> host_data_columns_dropdown,
     distinct_checkbox |-> distinct_checkbox,
     order_by_dropdown |-> order_by_dropdown,
     order_by_direction_dropdown |-> order_by_direction_dropdown,
     limit_input |-> limit_input,
     in_values_dropdown |-> in_values_dropdown,
     in_values_textarea |-> in_values_textarea]

JobsForm ==
    [where_conditions_jobs |-> where_conditions_jobs,
     validate_button_jobs |-> validate_button_jobs,
     start_time_jobs |-> start_time_jobs,
     end_time_jobs |-> end_time_jobs,
     job_data_columns_dropdown |-> job_data_columns_dropdown,
     distinct_checkbox_jobs |-> distinct_checkbox_jobs,
     order_by_dropdown_jobs |-> order_by_dropdown_jobs,
     order_by_direction_dropdown_jobs |-> order_by_direction_dropdown_jobs,
     limit_input_jobs |-> limit_input_jobs,
     in_values_dropdown_jobs |-> in_values_dropdown_jobs,
     in_values_textarea_jobs |-> in_values_textarea_jobs]

\* variant: the limit of the form is not read
BuildHostsUnlimited(bwm) ==
    construct_query_hosts(bwm.where_conditions_hosts, bwm.host_data_columns_dropdown,
                          bwm.validate_button_hosts, bwm.start_time_hosts, bwm.end_time_hosts,
                          [bwm EXCEPT !.limit_input = 0])

\* the query and parameters the builder returns for a form
BuildHosts(bwm) ==
    construct_query_hosts(bwm.where_conditions_hosts, bwm.host_data_columns_dropdown,
                          bwm.validate_button_hosts, bwm.start_time_hosts, bwm.end_time_hosts, bwm)

\* variant: the job builder is never told of a Valid window
BuildJobsUntimed(bwm) ==
    construct_job_data_query(bwm.where_conditions_jobs, bwm.job_data_columns_dropdown,
                             "Validate Dates", bwm.start_time_jobs, bwm.end_time_jobs, bwm)

BuildJobs(bwm) ==
    construct_job_data_query(bwm.where_conditions_jobs, bwm.job_data_columns_dropdown,
                             bwm.validate_button_jobs, bwm.start_time_jobs, bwm.end_time_jobs, bwm)

\* BaseWidgetManager.display_query_hosts, for the form as the handler leaves it
display_query_hosts(bwm) ==
    LET built == BuildHosts(bwm)
    IN  /\ query_output_hosts' = print_to(clear_output(query_output_hosts), built)
        /\ host_data_sql_query' = built

\* BaseWidgetManager.display_query_jobs
display_query_jobs(bwm) ==
    query_output_jobs' = print_to(clear_output(query_output_jobs), BuildJobs(bwm))

(***************************************************************************)
(* Bounds and the inputs the analyst chooses from                          *)
(***************************************************************************)
\* most conditions a form holds in a checked behaviour
MaxConds == 2

\* what the backend may do with an execution
ResultTables == {<<>>, <<"row1", "row2">>}
Backends ==
    [connect : BOOLEAN, query_ok : BOOLEAN, rows : ResultTables, empty_frame : BOOLEAN,
     deletes : BOOLEAN, fetch_fails_at : 0..1, finalizes : BOOLEAN]

(***************************************************************************)
(* ipywidgets SelectMultiple and list helpers                              *)
(***************************************************************************)
\* the members of a set of positions, ascending
RECURSIVE Ascending(_)
Ascending(positions) ==
    IF positions = {} THEN <<>>
    ELSE LET least == CHOOSE i \in positions : \A j \in positions : i <= j
         IN  <<least>> \o Ascending(positions \ {least})

\* SelectMultiple.value: the labels at the selected positions
selected_value(options, selection) ==
    LET order == Ascending(selection) IN [k \in 1..Len(order) |-> options[order[k]]]

\* options.index(label): the first position holding the label
index_of(options, label) ==
    CHOOSE i \in 1..Len(options) : options[i] = label /\ \A j \in 1..(i - 1) : options[j] # label

\* list.pop(index), index within the list
pop(list, index) == SubSeq(list, 1, index - 1) \o SubSeq(list, index + 1, Len(list))

\* [f"{col} {op} '{val}'" for col, op, val in conditions]
condition_labels(conditions) ==
    [i \in 1..Len(conditions) |->
        conditions[i][1] \o " " \o conditions[i][2] \o " '" \o conditions[i][3] \o "'"]

\* the display list on_add_condition_button_hosts_clicked builds
display_conditions(conditions, values) ==
    [i \in 1..Len(conditions) |->
        IF ~Contains(conditions[i][3], "%s")
        THEN conditions[i][1] \o " " \o conditions[i][2] \o " '" \o conditions[i][3] \o "'"
        ELSE conditions[i][1] \o " " \o conditions[i][2] \o " '" \o values[i] \o "'"]

IndexError == "IndexError: pop index out of range"

(***************************************************************************)
(* classes/widget_state_manager.py: host table handlers                    *)
(***************************************************************************)
\* the analyst edits a datetime picker; nothing observes the pickers
set_start_time_hosts(t) ==
    /\ t # start_time_hosts
    /\ start_time_hosts' = t
    /\ db_calls' = <<>>
    /\ UNCHANGED <<form, execution, hosts_conditions, hosts_window, end_time_hosts, hosts_options, hosts_query,
                   error_output_hosts, output_hosts, time_series_df, jobs_vars>>

\* variant: editing the end time resets the validation
set_end_time_hosts_resetting(t) ==
    /\ t # end_time_hosts
    /\ end_time_hosts' = t
    /\ time_window_valid_hosts' = FALSE
    /\ validate_button_hosts' = "Validate Dates"
    /\ db_calls' = <<>>
    /\ UNCHANGED <<form, execution, hosts_conditions, start_time_hosts, hosts_options, hosts_query,
                   error_output_hosts, output_hosts, time_series_df, jobs_vars>>

set_end_time_hosts(t) ==
    /\ t # end_time_hosts
    /\ end_time_hosts' = t
    /\ db_calls' = <<>>
    /\ UNCHANGED <<form, execution, hosts_conditions, hosts_window, start_time_hosts, hosts_options, hosts_query,
                   error_output_hosts, output_hosts, time_series_df, jobs_vars>>

\* the description the validate button gets for a window
window_description(start, end, max_days) ==
    IF Hours(start) >= Hours(end) THEN "Invalid Times"
    ELSE IF Hours(end) <= Hours(start) THEN "Invalid Times"
    ELSE IF timedelta_days(start, end) > max_days THEN "Time Window Too Large"
    ELSE "Times Valid"

\* variant: a validation that fails changes the description and leaves the flag
on_button_clicked_hosts_keeping_flag ==
    LET description == window_description(start_time_hosts, end_time_hosts, MAX_DAYS_HOSTS)
    IN  /\ validate_button_hosts' = description
        /\ time_window_valid_hosts' = (time_window_valid_hosts \/ description = "Times Valid")
        /\ error_output_hosts' = IF description = "Times Valid"
                                 THEN clear_output(error_output_hosts)
                                 ELSE error_output_hosts
        /\ display_query_hosts([HostsForm EXCEPT !.validate_button_hosts = description])
        /\ db_calls' = <<>>
        /\ UNCHANGED <<form, execution, hosts_conditions, hosts_times, hosts_options, output_hosts,
                       time_series_df, jobs_vars>>

on_button_clicked_hosts ==
    LET description == window_description(start_time_hosts, end_time_hosts, MAX_DAYS_HOSTS)
    IN  /\ validate_button_hosts' = description
        /\ time_window_valid_hosts' = (description = "Times Valid")
        /\ error_output_hosts' = IF description = "Times Valid"
                                 THEN clear_output(error_output_hosts)
                                 ELSE error_output_hosts
        /\ display_query_hosts([HostsForm EXCEPT !.validate_button_hosts = description])
        /\ db_calls' = <<>>
        /\ UNCHANGED <<form, execution, hosts_conditions, hosts_times, hosts_options, output_hosts,
                       time_series_df, jobs_vars>>

\* the handler past its time-window gate: validate the value, then append
append_condition_hosts(column, operator, text) ==
    LET value == IF Contains(casefold(text), "job") \/ Contains(casefold(text), "node")
                 THEN upper(text) ELSE text
        error_message == validate_condition_hosts(column, value)
        conditions == Append(where_conditions_hosts, <<column, operator, "%s">>)
        values == Append(where_conditions_values, value)
    IN  IF error_message # None
        THEN /\ error_output_hosts' = print_to(clear_output(error_output_hosts), error_message)
             /\ UNCHANGED <<form, execution, hosts_conditions, hosts_window, hosts_times, hosts_options,
                            hosts_query, output_hosts, time_series_df, jobs_vars>>
        ELSE /\ Len(where_conditions_hosts) < MaxConds
             /\ where_conditions_hosts' = conditions
             /\ where_conditions_values' = values
             /\ condition_list_hosts' = display_conditions(conditions, values)
             /\ error_output_hosts' = clear_output(error_output_hosts)
             /\ display_query_hosts([HostsForm EXCEPT !.where_conditions_hosts = conditions,
                                                      !.where_conditions_values = values])
             /\ UNCHANGED <<form, execution, hosts_window, hosts_times, hosts_options, output_hosts,
                            time_series_df, jobs_vars>>

\* variant: the handler without its time-window gate
ungated_add_condition_hosts(column, operator, text) ==
    /\ db_calls' = <<>>
    /\ append_condition_hosts(column, operator, text)

on_add_condition_button_hosts_clicked(column, operator, text) ==
    /\ db_calls' = <<>>
    /\ IF ~time_window_valid_hosts
       THEN /\ error_output_hosts' =
                   print_to(clear_output(error_output_hosts),
                            "Please enter a valid time window before adding conditions.")
            /\ UNCHANGED <<form, execution, hosts_conditions, hosts_window, hosts_times, hosts_options,
                           hosts_query, output_hosts, time_series_df, jobs_vars>>
       ELSE append_condition_hosts(column, operator, text)

\* variant: the loop pops the conditions and leaves the values
RECURSIVE remove_loop_keeping_values(_, _, _, _)
remove_loop_keeping_values(selected_conditions, options, conditions, values) ==
    IF selected_conditions = <<>>
    THEN [conditions |-> conditions, values |-> values, raised |-> FALSE]
    ELSE LET index == index_of(options, Head(selected_conditions))
         IN  IF index > Len(conditions)
             THEN [conditions |-> conditions, values |-> values, raised |-> TRUE]
             ELSE remove_loop_keeping_values(Tail(selected_conditions), options,
                                             pop(conditions, index), values)

\* the loop of on_remove_condition_button_hosts_clicked over the selected labels;
\* raised: a pop(index) found no entry at the index
RECURSIVE remove_loop_hosts(_, _, _, _)
remove_loop_hosts(selected_conditions, options, conditions, values) ==
    IF selected_conditions = <<>>
    THEN [conditions |-> conditions, values |-> values, raised |-> FALSE]
    ELSE LET index == index_of(options, Head(selected_conditions))
         IN  IF index > Len(values)
             THEN [conditions |-> conditions, values |-> values, raised |-> TRUE]
             ELSE IF index > Len(conditions)
             THEN [conditions |-> conditions, values |-> pop(values, index), raised |-> TRUE]
             ELSE remove_loop_hosts(Tail(selected_conditions), options,
                                    pop(conditions, index), pop(values, index))

on_remove_condition_button_hosts_clicked(selection) ==
    LET after == remove_loop_hosts(selected_value(condition_list_hosts, selection),
                                   condition_list_hosts, where_conditions_hosts,
                                   where_conditions_values)
    IN  /\ where_conditions_hosts' = after.conditions
        /\ where_conditions_values' = after.values
        /\ IF after.raised
           THEN /\ error_output_hosts' = print_to(clear_output(error_output_hosts), IndexError)
                /\ UNCHANGED <<condition_list_hosts, hosts_query>>
           ELSE /\ error_output_hosts' = clear_output(error_output_hosts)
                /\ condition_list_hosts' = condition_labels(after.conditions)
                /\ display_query_hosts([HostsForm EXCEPT !.where_conditions_hosts = after.conditions,
                                                         !.where_conditions_values = after.values])
        /\ db_calls' = <<>>
        /\ UNCHANGED <<form, execution, hosts_window, hosts_times, hosts_options, output_hosts,
                       time_series_df, jobs_vars>>

RECURSIVE print_all(_, _)
print_all(out, items) ==
    IF items = <<>> THEN out ELSE print_all(print_to(out, Head(items)), Tail(items))

\* the handler past its time-window gate: build, execute, show the result
run_query_hosts(db) ==
    LET built == BuildHosts(HostsForm)
        run == execute_sql_query_chunked(built.query, built.params, target_num_chunks, db)
    IN  IF ~delete_query_results_file(db)
        THEN /\ output_hosts' = print_to(clear_output(output_hosts), NoDeleteMethod)
             /\ db_calls' = <<>>
             /\ UNCHANGED <<form, execution, hosts_conditions, hosts_window, hosts_times, hosts_options,
                            hosts_query, error_output_hosts, time_series_df, jobs_vars>>
        ELSE /\ db_calls' = run.calls
             /\ time_series_df' = run.result
             /\ output_hosts' =
                    print_all(clear_output(output_hosts),
                              run.printed \o
                              <<"display(time_series_df)",
                                "Download the filtered Host table data? The files will appear on the left in the file explorer.",
                                "display(button_box)">>)
             /\ UNCHANGED <<form, execution, hosts_conditions, hosts_window, hosts_times, hosts_options,
                            hosts_query, error_output_hosts, jobs_vars>>

\* variant: the handler without its time-window gate
ungated_execute_hosts(db) == run_query_hosts(db)

on_execute_button_clicked_hosts(db) ==
    IF ~time_window_valid_hosts
    THEN /\ output_hosts' = print_to(clear_output(output_hosts),
                                     "Please enter a valid time window before executing the query.")
         /\ db_calls' = <<>>
         /\ UNCHANGED <<form, execution, hosts_conditions, hosts_window, hosts_times, hosts_options, hosts_query,
                        error_output_hosts, time_series_df, jobs_vars>>
    ELSE run_query_hosts(db)

\* the options the columns observers give the order-by and IN dropdowns (the
\* forms are built with the options of the selection '*')
all_columns == <<"None", "host", "jid", "type", "event", "unit", "value", "diff", "arc">>
all_job_cols ==
    <<"None", "jid", "submit_time", "start_time", "end_time", "runtime", "timelimit", "node_hrs",
      "nhosts", "ncores", "ngpus", "username", "account", "queue", "state", "jobname", "exitcode",
      "host_list">>

dropdown_options(columns, every_column) ==
    LET options == IF \E i \in 1..Len(columns) : columns[i] = "*"
                   THEN every_column ELSE <<"None">> \o columns
    IN  {options[i] : i \in 1..Len(options)}

\* assigning a Dropdown's options selects its first option, 'None'; the
\* observers of the two dropdowns run before the final display_query_hosts
observer_host_data_columns_dropdown(columns) ==
    /\ columns # host_data_columns_dropdown
    /\ host_data_columns_dropdown' = columns
    /\ order_by_dropdown' = "None"
    /\ in_values_dropdown' = "None"
    /\ display_query_hosts([HostsForm EXCEPT !.host_data_columns_dropdown = columns,
                                             !.order_by_dropdown = "None",
                                             !.in_values_dropdown = "None"])
    /\ db_calls' = <<>>
    /\ UNCHANGED <<form, execution, hosts_conditions, hosts_window, hosts_times, distinct_checkbox,
                   order_by_direction_dropdown, limit_input, in_values_textarea,
                   error_output_hosts, output_hosts, time_series_df, jobs_vars>>

observer_order_by_dropdown(column) ==
    /\ column # order_by_dropdown
    /\ column \in dropdown_options(host_data_columns_dropdown, all_columns)
    /\ order_by_dropdown' = column
    /\ display_query_hosts([HostsForm EXCEPT !.order_by_dropdown = column])
    /\ db_calls' = <<>>
    /\ UNCHANGED <<form, execution, hosts_conditions, hosts_window, hosts_times, host_data_columns_dropdown,
                   distinct_checkbox, order_by_direction_dropdown, limit_input, in_values_dropdown,
                   in_values_textarea, error_output_hosts, output_hosts, time_series_df, jobs_vars>>

observe_limit_input(limit) ==
    /\ limit # limit_input
    /\ limit_input' = limit
    /\ IF limit > 0
       THEN display_query_hosts([HostsForm EXCEPT !.limit_input = limit])
       ELSE UNCHANGED hosts_query
    /\ db_calls' = <<>>
    /\ UNCHANGED <<form, execution, hosts_conditions, hosts_window, hosts_times, host_data_columns_dropdown,
                   distinct_checkbox, order_by_dropdown, order_by_direction_dropdown,
                   in_values_dropdown, in_values_textarea, error_output_hosts, output_hosts,
                   time_series_df, jobs_vars>>

observe_in_values_textarea(text) ==
    /\ text # in_values_textarea
    /\ in_values_textarea' = text
    /\ display_query_hosts([HostsForm EXCEPT !.in_values_textarea = text])
    /\ db_calls' = <<>>
    /\ UNCHANGED <<form, execution, hosts_conditions, hosts_window, hosts_times, host_data_columns_dropdown,
                   distinct_checkbox, order_by_dropdown, order_by_direction_dropdown, limit_input,
                   in_values_dropdown, error_output_hosts, output_hosts, time_series_df, jobs_vars>>

\* observer_order_by_dropdown as the direction dropdown calls it
observer_order_by_dropdown_direction(direction) ==
    /\ direction # order_by_direction_dropdown
    /\ order_by_direction_dropdown' = direction
    /\ display_query_hosts([HostsForm EXCEPT !.order_by_direction_dropdown = direction])
    /\ db_calls' = <<>>
    /\ UNCHANGED <<form, execution, hosts_conditions, hosts_window, hosts_times, host_data_columns_dropdown,
                   distinct_checkbox, order_by_dropdown, limit_input, in_values_dropdown,
                   in_values_textarea, error_output_hosts, output_hosts, time_series_df, jobs_vars>>

observer_distinct_checkbox(checked) ==
    /\ checked # distinct_checkbox
    /\ distinct_checkbox' = checked
    /\ display_query_hosts([HostsForm EXCEPT !.distinct_checkbox = checked])
    /\ db_calls' = <<>>
    /\ UNCHANGED <<form, execution, hosts_conditions, hosts_window, hosts_times, host_data_columns_dropdown,
                   order_by_dropdown, order_by_direction_dropdown, limit_input, in_values_dropdown,
                   in_values_textarea, error_output_hosts, output_hosts, time_series_df, jobs_vars>>

observe_in_values_dropdown(column) ==
    /\ column # in_values_dropdown
    /\ column \in dropdown_options(host_data_columns_dropdown, all_columns)
    /\ in_values_dropdown' = column
    /\ IF column # "None"
       THEN display_query_hosts([HostsForm EXCEPT !.in_values_dropdown = column])
       ELSE UNCHANGED hosts_query
    /\ db_calls' = <<>>
    /\ UNCHANGED <<form, execution, hosts_conditions, hosts_window, hosts_times, host_data_columns_dropdown,
                   distinct_checkbox, order_by_dropdown, order_by_direction_dropdown, limit_input,
                   in_values_textarea, error_output_hosts, output_hosts, time_series_df, jobs_vars>>

(***************************************************************************)
(* classes/widget_state_manager.py: job table handlers                     *)
(***************************************************************************)
set_start_time_jobs(t) ==
    /\ t # start_time_jobs
    /\ start_time_jobs' = t
    /\ db_calls' = <<>>
    /\ UNCHANGED <<form, execution, hosts_vars, jobs_conditions, jobs_window, end_time_jobs, jobs_options,
                   query_output_jobs, error_output_jobs, output_jobs, account_log_df>>

set_end_time_jobs(t) ==
    /\ t # end_time_jobs
    /\ end_time_jobs' = t
    /\ db_calls' = <<>>
    /\ UNCHANGED <<form, execution, hosts_vars, jobs_conditions, jobs_window, start_time_jobs, jobs_options,
                   query_output_jobs, error_output_jobs, output_jobs, account_log_df>>

\* variant: the job validation also marks the window of the host form
on_button_clicked_jobs_marking_hosts ==
    LET description == window_description(start_time_jobs, end_time_jobs, MAX_DAYS_JOBS)
    IN  /\ validate_button_jobs' = description
        /\ time_window_valid_jobs' = (description = "Times Valid")
        /\ validate_button_hosts' = description
        /\ time_window_valid_hosts' = (description = "Times Valid")
        /\ error_output_jobs' = IF description = "Times Valid"
                                THEN clear_output(error_output_jobs)
                                ELSE error_output_jobs
        /\ display_query_jobs([JobsForm EXCEPT !.validate_button_jobs = description])
        /\ db_calls' = <<>>
        /\ UNCHANGED <<form, execution, hosts_conditions, hosts_times, hosts_options, hosts_query,
                       error_output_hosts, output_hosts, time_series_df,
                       jobs_conditions, jobs_times, jobs_options, output_jobs, account_log_df>>

on_button_clicked_jobs ==
    LET description == window_description(start_time_jobs, end_time_jobs, MAX_DAYS_JOBS)
    IN  /\ validate_button_jobs' = description
        /\ time_window_valid_jobs' = (description = "Times Valid")
        /\ error_output_jobs' = IF description = "Times Valid"
                                THEN clear_output(error_output_jobs)
                                ELSE error_output_jobs
        /\ display_query_jobs([JobsForm EXCEPT !.validate_button_jobs = description])
        /\ db_calls' = <<>>
        /\ UNCHANGED <<form, execution, hosts_vars, jobs_conditions, jobs_times, jobs_options, output_jobs,
                       account_log_df>>

\* the value add_condition_jobs reads from the input the column's observer
\* installed: a Dropdown's value as it is, a Text's value upper-cased, a
\* datetime picker's value as it is
value_input_jobs(column, text) ==
    IF Contains(column, "_time") THEN text
    ELSE IF column \in {"queue", "exitcode"} THEN text
    ELSE upper(text)

\* the handler past its time-window gate: validate the value, then append
append_condition_jobs(column, operator, text) ==
    LET value == value_input_jobs(column, text)
        error_message == validate_condition_jobs(column, value)
        conditions == Append(where_conditions_jobs, <<column, operator, value>>)
    IN  IF error_message # None
        THEN /\ error_output_jobs' = print_to(clear_output(error_output_jobs), error_message)
             /\ UNCHANGED <<form, execution, hosts_vars, jobs_conditions, jobs_window, jobs_times,
                            jobs_options, query_output_jobs, output_jobs, account_log_df>>
        ELSE /\ Len(where_conditions_jobs) < MaxConds
             /\ where_conditions_jobs' = conditions
             /\ condition_list_jobs' = condition_labels(conditions)
             /\ error_output_jobs' = clear_output(error_output_jobs)
             /\ display_query_jobs([JobsForm EXCEPT !.where_conditions_jobs = conditions])
             /\ UNCHANGED <<form, execution, hosts_vars, jobs_window, jobs_times, jobs_options,
                            output_jobs, account_log_df>>

add_condition_jobs(column, operator, text) ==
    /\ db_calls' = <<>>
    /\ IF ~time_window_valid_jobs
       THEN /\ error_output_jobs' =
                   print_to(clear_output(error_output_jobs),
                            "Please enter a valid time window before adding conditions.")
            /\ UNCHANGED <<form, execution, hosts_vars, jobs_conditions, jobs_window, jobs_times, jobs_options,
                           query_output_jobs, output_jobs, account_log_df>>
       ELSE append_condition_jobs(column, operator, text)

\* the loop of remove_condition_jobs over the selected labels
RECURSIVE remove_loop_jobs(_, _, _)
remove_loop_jobs(selected_conditions, options, conditions) ==
    IF selected_conditions = <<>>
    THEN [conditions |-> conditions, raised |-> FALSE]
    ELSE LET index == index_of(options, Head(selected_conditions))
         IN  IF index > Len(conditions)
             THEN [conditions |-> conditions, raised |-> TRUE]
             ELSE remove_loop_jobs(Tail(selected_conditions), options, pop(conditions, index))

remove_condition_jobs(selection) ==
    LET after == remove_loop_jobs(selected_value(condition_list_jobs, selection),
                                  condition_list_jobs, where_conditions_jobs)
    IN  /\ where_conditions_jobs' = after.conditions
        /\ IF after.raised
           THEN /\ error_output_jobs' = print_to(clear_output(error_output_jobs), IndexError)
                /\ UNCHANGED <<condition_list_jobs, query_output_jobs>>
           ELSE /\ error_output_jobs' = clear_output(error_output_jobs)
                /\ condition_list_jobs' = condition_labels(after.conditions)
                /\ display_query_jobs([JobsForm EXCEPT !.where_conditions_jobs = after.conditions])
        /\ db_calls' = <<>>
        /\ UNCHANGED <<form, execution, hosts_vars, jobs_window, jobs_times, jobs_options, output_jobs,
                       account_log_df>>

\* the handler past its time-window gate: build, execute, show the result
run_query_jobs(db) ==
    IF construct_job_data_query_raises(job_data_columns_dropdown)
    THEN /\ output_jobs' = print_to(clear_output(output_jobs),
                                    "An error occurred: Invalid column name selected")
         /\ db_calls' = <<>>
         /\ UNCHANGED <<form, execution, hosts_vars, jobs_conditions, jobs_window, jobs_times, jobs_options,
                        query_output_jobs, error_output_jobs, account_log_df>>
    ELSE IF ~delete_query_results_file(db)
    THEN /\ output_jobs' = print_to(clear_output(output_jobs), NoDeleteMethod)
         /\ db_calls' = <<>>
         /\ UNCHANGED <<form, execution, hosts_vars, jobs_conditions, jobs_window, jobs_times, jobs_options,
                        query_output_jobs, error_output_jobs, account_log_df>>
    ELSE LET built == BuildJobs(JobsForm)
             run == execute_sql_query_chunked(built.query, built.params, target_num_chunks, db)
         IN  /\ db_calls' = run.calls
             /\ account_log_df' = run.result
             /\ output_jobs' =
                    print_all(clear_output(output_jobs),
                              run.printed \o
                              <<"display(account_log_df)",
                                "Download the Job table data? The files will appear on the left in the file explorer.",
                                "display(button_box2)">>)
             /\ UNCHANGED <<form, execution, hosts_vars, jobs_conditions, jobs_window, jobs_times, jobs_options,
                            query_output_jobs, error_output_jobs>>

on_execute_button_clicked_jobs(db) ==
    IF ~time_window_valid_jobs
    THEN /\ output_jobs' = print_to(clear_output(output_jobs),
                                    "Please enter a valid time window before executing the query.")
         /\ db_calls' = <<>>
         /\ UNCHANGED <<form, execution, hosts_vars, jobs_conditions, jobs_window, jobs_times, jobs_options,
                        query_output_jobs, error_output_jobs, account_log_df>>
    ELSE run_query_jobs(db)

observer_job_data_columns_dropdown(columns) ==
    /\ columns # job_data_columns_dropdown
    /\ job_data_columns_dropdown' = columns
    /\ order_by_dropdown_jobs' = "None"
    /\ in_values_dropdown_jobs' = "None"
    /\ display_query_jobs([JobsForm EXCEPT !.job_data_columns_dropdown = columns,
                                           !.order_by_dropdown_jobs = "None",
                                           !.in_values_dropdown_jobs = "None"])
    /\ db_calls' = <<>>
    /\ UNCHANGED <<form, execution, hosts_vars, jobs_conditions, jobs_window, jobs_times,
                   distinct_checkbox_jobs, order_by_direction_dropdown_jobs, limit_input_jobs,
                   in_values_textarea_jobs, error_output_jobs, output_jobs, account_log_df>>

observer_order_by_dropdowns(column) ==
    /\ column # order_by_dropdown_jobs
    /\ column \in dropdown_options(job_data_columns_dropdown, all_job_cols)
    /\ order_by_dropdown_jobs' = column
    /\ display_query_jobs([JobsForm EXCEPT !.order_by_dropdown_jobs = column])
    /\ db_calls' = <<>>
    /\ UNCHANGED <<form, execution, hosts_vars, jobs_conditions, jobs_window, jobs_times,
                   job_data_columns_dropdown, distinct_checkbox_jobs,
                   order_by_direction_dropdown_jobs, limit_input_jobs, in_values_dropdown_jobs,
                   in_values_textarea_jobs, error_output_jobs, output_jobs, account_log_df>>

observer_limit_input_jobs(limit) ==
    /\ limit # limit_input_jobs
    /\ limit_input_jobs' = limit
    /\ IF limit > 0
       THEN display_query_jobs([JobsForm EXCEPT !.limit_input_jobs = limit])
       ELSE UNCHANGED query_output_jobs
    /\ db_calls' = <<>>
    /\ UNCHANGED <<form, execution, hosts_vars, jobs_conditions, jobs_window, jobs_times,
                   job_data_columns_dropdown, distinct_checkbox_jobs, order_by_dropdown_jobs,
                   order_by_direction_dropdown_jobs, in_values_dropdown_jobs,
                   in_values_textarea_jobs, error_output_jobs, output_jobs, account_log_df>>

\* the observer as the IN textarea calls it
observer_in_values_jobs(text) ==
    /\ text # in_values_textarea_jobs
    /\ in_values_textarea_jobs' = text
    /\ display_query_jobs([JobsForm EXCEPT !.in_values_textarea_jobs = text])
    /\ db_calls' = <<>>
    /\ UNCHANGED <<form, execution, hosts_vars, jobs_conditions, jobs_window, jobs_times,
                   job_data_columns_dropdown, distinct_checkbox_jobs, order_by_dropdown_jobs,
                   order_by_direction_dropdown_jobs, limit_input_jobs, in_values_dropdown_jobs,
                   error_output_jobs, output_jobs, account_log_df>>

\* the observer as the IN dropdown calls it
observer_in_values_jobs_dropdown(column) ==
    /\ column # in_values_dropdown_jobs
    /\ column \in dropdown_options(job_data_columns_dropdown, all_job_cols)
    /\ in_values_dropdown_jobs' = column
    /\ display_query_jobs([JobsForm EXCEPT !.in_values_dropdown_jobs = column])
    /\ db_calls' = <<>>
    /\ UNCHANGED <<form, execution, hosts_vars, jobs_conditions, jobs_window, jobs_times,
                   job_data_columns_dropdown, distinct_checkbox_jobs, order_by_dropdown_jobs,
                   order_by_direction_dropdown_jobs, limit_input_jobs, in_values_textarea_jobs,
                   error_output_jobs, output_jobs, account_log_df>>

\* observer_order_by_dropdowns as the direction dropdown calls it
observer_order_by_dropdowns_direction(direction) ==
    /\ direction # order_by_direction_dropdown_jobs
    /\ order_by_direction_dropdown_jobs' = direction
    /\ display_query_jobs([JobsForm EXCEPT !.order_by_direction_dropdown_jobs = direction])
    /\ db_calls' = <<>>
    /\ UNCHANGED <<form, execution, hosts_vars, jobs_conditions, jobs_window, jobs_times,
                   job_data_columns_dropdown, distinct_checkbox_jobs, order_by_dropdown_jobs,
                   limit_input_jobs, in_values_dropdown_jobs, in_values_textarea_jobs,
                   error_output_jobs, output_jobs, account_log_df>>

on_distinct_hosts_checkbox_change(checked) ==
    /\ checked # distinct_checkbox_jobs
    /\ distinct_checkbox_jobs' = checked
    /\ display_query_jobs([JobsForm EXCEPT !.distinct_checkbox_jobs = checked])
    /\ db_calls' = <<>>
    /\ UNCHANGED <<form, execution, hosts_vars, jobs_conditions, jobs_window, jobs_times,
                   job_data_columns_dropdown, order_by_dropdown_jobs,
                   order_by_direction_dropdown_jobs, limit_input_jobs, in_values_dropdown_jobs,
                   in_values_textarea_jobs, error_output_jobs, output_jobs, account_log_df>>

(***************************************************************************)
(* notebook_utilities.py: the host table handlers of NotebookUtilities,    *)
(* which keeps the same lists in its own attributes                        *)
(***************************************************************************)
NU_construct_query_hosts(where_conditions_hosts_, host_data_columns_dropdown_, validate_button_hosts_, start_time_hosts_, end_time_hosts_, self) ==
    construct_query_hosts(where_conditions_hosts_, host_data_columns_dropdown_,
                          validate_button_hosts_, start_time_hosts_, end_time_hosts_, self)

NU_BuildHosts(self) ==
    NU_construct_query_hosts(self.where_conditions_hosts, self.host_data_columns_dropdown,
                             self.validate_button_hosts, self.start_time_hosts,
                             self.end_time_hosts, self)

NU_display_query_hosts(self) ==
    LET built == NU_BuildHosts(self)
    IN  /\ query_output_hosts' = print_to(clear_output(query_output_hosts), built)
        /\ host_data_sql_query' = built

NU_on_button_clicked_hosts ==
    LET description == window_description(start_time_hosts, end_time_hosts, MAX_DAYS_HOSTS)
    IN  /\ validate_button_hosts' = description
        /\ time_window_valid_hosts' = (description = "Times Valid")
        /\ error_output_hosts' = IF description = "Times Valid"
                                 THEN clear_output(error_output_hosts)
                                 ELSE error_output_hosts
        /\ NU_display_query_hosts([HostsForm EXCEPT !.validate_button_hosts = description])
        /\ db_calls' = <<>>
        /\ UNCHANGED <<form, execution, hosts_conditions, hosts_times, hosts_options, output_hosts,
                       time_series_df, jobs_vars>>

NU_add_condition_hosts(column, operator, text) ==
    /\ db_calls' = <<>>
    /\ IF ~time_window_valid_hosts
       THEN /\ error_output_hosts' =
                   print_to(clear_output(error_output_hosts),
                            "Please enter a valid time window before adding conditions.")
            /\ UNCHANGED <<form, execution, hosts_conditions, hosts_window, hosts_times, hosts_options,
                           hosts_query, output_hosts, time_series_df, jobs_vars>>
       ELSE LET value == IF Contains(casefold(text), "job") \/ Contains(casefold(text), "node")
                         THEN upper(text) ELSE text
                error_message == validate_condition_hosts(column, value)
                conditions == Append(where_conditions_hosts, <<column, operator, "%s">>)
                values == Append(where_conditions_values, value)
            IN  IF error_message # None
                THEN /\ error_output_hosts' = print_to(clear_output(error_output_hosts), error_message)
                     /\ UNCHANGED <<form, execution, hosts_conditions, hosts_window, hosts_times, hosts_options,
                                    hosts_query, output_hosts, time_series_df, jobs_vars>>
                ELSE /\ Len(where_conditions_values) < MaxConds
                     /\ where_conditions_hosts' = conditions
                     /\ where_conditions_values' = values
                     /\ condition_list_hosts' = condition_labels(conditions)
                     /\ error_output_hosts' = clear_output(error_output_hosts)
                     /\ NU_display_query_hosts([HostsForm EXCEPT !.where_conditions_hosts = conditions,
                                                                 !.where_conditions_values = values])
                     /\ UNCHANGED <<form, execution, hosts_window, hosts_times, hosts_options, output_hosts,
                                    time_series_df, jobs_vars>>

\* the loop of NotebookUtilities.remove_condition_hosts over the selected labels
RECURSIVE NU_remove_loop_hosts(_, _, _)
NU_remove_loop_hosts(selected_conditions, options, conditions) ==
    IF selected_conditions = <<>>
    THEN [conditions |-> conditions, raised |-> FALSE]
    ELSE LET index == index_of(options, Head(selected_conditions))
         IN  IF index > Len(conditions)
             THEN [conditions |-> conditions, raised |-> TRUE]
             ELSE NU_remove_loop_hosts(Tail(selected_conditions), options, pop(conditions, index))

NU_remove_condition_hosts(selection) ==
    LET after == NU_remove_loop_hosts(selected_value(condition_list_hosts, selection),
                                      condition_list_hosts, where_conditions_hosts)
    IN  /\ where_conditions_hosts' = after.conditions
        /\ IF after.raised
           THEN /\ error_output_hosts' = print_to(clear_output(error_output_hosts), IndexError)
                /\ UNCHANGED <<condition_list_hosts, hosts_query>>
           ELSE /\ error_output_hosts' = clear_output(error_output_hosts)
                /\ condition_list_hosts' = condition_labels(after.conditions)
                /\ NU_display_query_hosts([HostsForm EXCEPT !.where_conditions_hosts = after.conditions])
        /\ db_calls' = <<>>
        /\ UNCHANGED <<form, execution, where_conditions_values, hosts_window, hosts_times, hosts_options,
                       output_hosts, time_series_df, jobs_vars>>

(***************************************************************************)
(* What the analyst enters                                                 *)
(***************************************************************************)
HostTimeInputs ==
    {"2024-01-01 00:00:00", "2024-01-10 00:00:00", "2024-02-01 12:00:00", "2024-03-01 00:00:00"}
JobTimeInputs ==
    {"2024-01-01 00:00:00", "2024-01-10 00:00:00", "2024-06-29 12:00:00", "2024-06-30 00:00:00"}
EndTimeInputs == {"2024-01-01 00:00:00", "2024-01-10 00:00:00"}
HostColumnInputs == {"host", "value"}
JobColumnInputs == {"account", "ncores"}
OperatorInputs == {"="}
NUOperatorInputs == {"=", "<"}
HostValueInputs == {"node1", "5.5"}
JobValueInputs == {"group12", "5.5"}
InValuesInputs == {"", "NODE1, NODE2"}
HostColumnsInputs == {<<"*">>, <<"host", "value">>}
JobColumnsInputs == {<<"*">>, <<"account", "ncores">>}
HostOrderInputs == {"None", "host"}
JobOrderInputs == {"None", "account"}
LimitInputs == {0, 10}
\* a backend that answers with two rows
SessionBackends ==
    {db \in Backends : /\ db.connect /\ db.query_ok /\ db.empty_frame /\ db.rows # <<>>
                         /\ db.fetch_fails_at = 0 /\ db.finalizes}

(***************************************************************************)
(* The analyst builds conditions in one of the forms                       *)
(***************************************************************************)
ConditionsNext ==
    \/ form = "hosts" /\ \E t \in EndTimeInputs : set_end_time_hosts(t)
    \/ form = "hosts" /\ on_button_clicked_hosts
    \/ form = "hosts" /\
          \E column \in HostColumnInputs, operator \in OperatorInputs, text \in HostValueInputs :
             on_add_condition_button_hosts_clicked(column, operator, text)
    \/ form = "hosts" /\
          \E selection \in SUBSET (1..Len(condition_list_hosts)) :
             on_remove_condition_button_hosts_clicked(selection)
    \/ form = "hosts" /\ \E text \in InValuesInputs : observe_in_values_textarea(text)
    \/ form = "jobs" /\ \E t \in EndTimeInputs : set_end_time_jobs(t)
    \/ form = "jobs" /\ on_button_clicked_jobs
    \/ form = "jobs" /\
          \E column \in JobColumnInputs, operator \in OperatorInputs, text \in JobValueInputs :
             add_condition_jobs(column, operator, text)
    \/ form = "jobs" /\
          \E selection \in SUBSET (1..Len(condition_list_jobs)) : remove_condition_jobs(selection)
    \/ form = "jobs" /\ \E text \in InValuesInputs : observer_in_values_jobs(text)

SpecConditions == Init /\ [][ConditionsNext]_vars

(***************************************************************************)
(* The analyst sets a window and executes                                  *)
(***************************************************************************)
WindowNext ==
    \/ form = "hosts" /\ \E t \in HostTimeInputs : set_start_time_hosts(t)
    \/ form = "hosts" /\ \E t \in HostTimeInputs : set_end_time_hosts(t)
    \/ form = "hosts" /\ on_button_clicked_hosts
    \/ form = "hosts" /\ \E db \in Backends : on_execute_button_clicked_hosts(db)
    \/ form = "jobs" /\ \E t \in JobTimeInputs : set_start_time_jobs(t)
    \/ form = "jobs" /\ \E t \in JobTimeInputs : set_end_time_jobs(t)
    \/ form = "jobs" /\ on_button_clicked_jobs
    \/ form = "jobs" /\ \E db \in Backends : on_execute_button_clicked_jobs(db)

SpecWindow == Init /\ [][WindowNext]_vars

(***************************************************************************)
(* A whole session in one of the forms                                     *)
(***************************************************************************)
Next ==
    \/ form = "hosts" /\ \E t \in EndTimeInputs : set_start_time_hosts(t)
    \/ form = "hosts" /\ \E t \in EndTimeInputs : set_end_time_hosts(t)
    \/ form = "hosts" /\ on_button_clicked_hosts
    \/ form = "hosts" /\ on_add_condition_button_hosts_clicked("host", "=", "node1")
    \/ form = "hosts" /\
          \E selection \in SUBSET (1..Len(condition_list_hosts)) :
             on_remove_condition_button_hosts_clicked(selection)
    \/ form = "hosts" /\
          \E columns \in HostColumnsInputs : observer_host_data_columns_dropdown(columns)
    \/ form = "hosts" /\ \E column \in HostOrderInputs : observer_order_by_dropdown(column)
    \/ form = "hosts" /\ \E limit \in LimitInputs : observe_limit_input(limit)
    \/ form = "hosts" /\ \E text \in InValuesInputs : observe_in_values_textarea(text)
    \/ form = "hosts" /\ \E db \in SessionBackends : on_execute_button_clicked_hosts(db)
    \/ form = "jobs" /\ \E t \in EndTimeInputs : set_start_time_jobs(t)
    \/ form = "jobs" /\ \E t \in EndTimeInputs : set_end_time_jobs(t)
    \/ form = "jobs" /\ on_button_clicked_jobs
    \/ form = "jobs" /\ add_condition_jobs("account", "=", "group12")
    \/ form = "jobs" /\
          \E selection \in SUBSET (1..Len(condition_list_jobs)) : remove_condition_jobs(selection)
    \/ form = "jobs" /\
          \E columns \in JobColumnsInputs : observer_job_data_columns_dropdown(columns)
    \/ form = "jobs" /\ \E column \in JobOrderInputs : observer_order_by_dropdowns(column)
    \/ form = "jobs" /\ \E limit \in LimitInputs : observer_limit_input_jobs(limit)
    \/ form = "jobs" /\ \E text \in InValuesInputs : observer_in_values_jobs(text)
    \/ form = "jobs" /\ \E db \in SessionBackends : on_execute_button_clicked_jobs(db)

Spec == Init /\ [][Next]_vars

(***************************************************************************)
(* The analyst sets the options of the query in one of the forms           *)
(***************************************************************************)
HostSelectionInputs == {<<>>, <<"*">>, <<"host", "value">>}
JobSelectionInputs == {<<>>, <<"*">>, <<"account", "ncores">>}
DirectionInputs == {"ASC", "DESC"}

OptionsNext ==
    \/ form = "hosts" /\ \E t \in EndTimeInputs : set_end_time_hosts(t)
    \/ form = "hosts" /\ on_button_clicked_hosts
    \/ form = "hosts" /\ on_add_condition_button_hosts_clicked("host", "=", "node1")
    \/ form = "hosts" /\
          \E columns \in HostSelectionInputs : observer_host_data_columns_dropdown(columns)
    \/ form = "hosts" /\ \E checked \in BOOLEAN : observer_distinct_checkbox(checked)
    \/ form = "hosts" /\ \E column \in HostOrderInputs : observer_order_by_dropdown(column)
    \/ form = "hosts" /\
          \E direction \in DirectionInputs : observer_order_by_dropdown_direction(direction)
    \/ form = "hosts" /\ \E limit \in LimitInputs : observe_limit_input(limit)
    \/ form = "hosts" /\ \E column \in HostOrderInputs : observe_in_values_dropdown(column)
    \/ form = "hosts" /\ \E text \in InValuesInputs : observe_in_values_textarea(text)
    \/ form = "jobs" /\ \E t \in EndTimeInputs : set_end_time_jobs(t)
    \/ form = "jobs" /\ on_button_clicked_jobs
    \/ form = "jobs" /\ add_condition_jobs("account", "=", "group12")
    \/ form = "jobs" /\
          \E columns \in JobSelectionInputs : observer_job_data_columns_dropdown(columns)
    \/ form = "jobs" /\ \E checked \in BOOLEAN : on_distinct_hosts_checkbox_change(checked)
    \/ form = "jobs" /\ \E column \in JobOrderInputs : observer_order_by_dropdowns(column)
    \/ form = "jobs" /\
          \E direction \in DirectionInputs : observer_order_by_dropdowns_direction(direction)
    \/ form = "jobs" /\ \E limit \in LimitInputs : observer_limit_input_jobs(limit)
    \/ form = "jobs" /\ \E column \in JobOrderInputs : observer_in_values_jobs_dropdown(column)
    \/ form = "jobs" /\ \E text \in InValuesInputs : observer_in_values_jobs(text)

SpecOptions == Init /\ [][OptionsNext]_vars

(***************************************************************************)
(* A DatabaseManager method is called directly, with the query of the host *)
(* form as constructed, on every backend and disk of the bounded sets      *)
(***************************************************************************)
\* most rows a result of a direct call holds
MaxRows == 3

ExecutionTables == UNION {[1..n -> {"a", "bb"}] : n \in 0..MaxRows}
ExecutionBackends ==
    [connect : BOOLEAN, query_ok : BOOLEAN, rows : ExecutionTables, empty_frame : BOOLEAN,
     deletes : {TRUE}, fetch_fails_at : 0..2, finalizes : BOOLEAN]
FreeDiskInputs == {0, 8, 16, 100}
TargetInputs == {1, 2, target_num_chunks}

ExecutionInit ==
    /\ form = "hosts"
    /\ init_non_widget_variables
    /\ initialize_host_data_widgets
    /\ initialize_job_data_widgets
    /\ db_calls = <<>>
    /\ \E method \in {"execute_sql_query_chunked", "execute_sql_query_and_stream_to_disk"},
          db \in ExecutionBackends, free \in FreeDiskInputs, target \in TargetInputs :
          execution = [pc |-> "called", method |-> method, built |-> BuildHosts(HostsForm),
                       target_num_chunks |-> target, db |-> db, disk |-> [free |-> free]]

call_execute_sql_query_chunked ==
    /\ execution.pc = "called"
    /\ execution.method = "execute_sql_query_chunked"
    /\ LET run == execute_sql_query_chunked(execution.built.query, execution.built.params,
                                            execution.target_num_chunks, execution.db)
       IN  /\ execution' = [pc |-> "returned", method |-> execution.method,
                            built |-> execution.built,
                            target_num_chunks |-> execution.target_num_chunks,
                            db |-> execution.db, disk |-> execution.disk, run |-> run]
           /\ db_calls' = run.calls
    /\ UNCHANGED <<form, hosts_vars, jobs_vars>>

call_execute_sql_query_and_stream_to_disk ==
    /\ execution.pc = "called"
    /\ execution.method = "execute_sql_query_and_stream_to_disk"
    /\ LET run == execute_sql_query_and_stream_to_disk(
                      execution.built.query, "chunk", execution.built.params,
                      execution.target_num_chunks, execution.db, execution.disk)
       IN  /\ execution' = [pc |-> "returned", method |-> execution.method,
                            built |-> execution.built,
                            target_num_chunks |-> execution.target_num_chunks,
                            db |-> execution.db, disk |-> execution.disk, run |-> run]
           /\ db_calls' = run.calls
    /\ UNCHANGED <<form, hosts_vars, jobs_vars>>

ExecutionNext ==
    \/ call_execute_sql_query_chunked
    \/ call_execute_sql_query_and_stream_to_disk

SpecExecution == ExecutionInit /\ [][ExecutionNext]_vars

(***************************************************************************)
(* A text is typed for an identifier column; the validator is called on    *)
(* it, and the analyst adds it as a condition                              *)
(***************************************************************************)
IdentifierTexts ==
    {"", "JOB", "JOB1,JOB23", "job1", " Job1 , job23 ", "JOB1,", "JOBABC", "123JOB", "JOB1234A",
     "NODE1", "node1,NODE22", "NODE", "USER7", "user7", "GROUP12", "group12,", "JOBNAME3",
     "jobname3, JOBNAME4"}
HostIdentifierColumns == {"host", "jid"}
JobIdentifierColumns == {"jid", "jobname", "host_list", "username", "account"}

ValidateInit ==
    /\ form \in {"hosts", "jobs"}
    /\ init_non_widget_variables
    /\ initialize_host_data_widgets
    /\ initialize_job_data_widgets
    /\ db_calls = <<>>
    /\ \E value \in IdentifierTexts :
          \E column \in IF form = "hosts" THEN HostIdentifierColumns ELSE JobIdentifierColumns :
             execution = [pc |-> "typed", column |-> column, value |-> value]

call_validate_condition_hosts ==
    /\ execution.pc = "typed"
    /\ execution' = [pc |-> "validated", column |-> execution.column, value |-> execution.value,
                     error_message |-> validate_condition_hosts(execution.column, execution.value)]
    /\ UNCHANGED <<form, hosts_vars, jobs_vars, db_calls>>

call_validate_condition_jobs ==
    /\ execution.pc = "typed"
    /\ execution' = [pc |-> "validated", column |-> execution.column, value |-> execution.value,
                     error_message |-> validate_condition_jobs(execution.column, execution.value)]
    /\ UNCHANGED <<form, hosts_vars, jobs_vars, db_calls>>

ValidateNext ==
    \/ form = "hosts" /\ call_validate_condition_hosts
    \/ form = "hosts" /\ \E t \in EndTimeInputs : set_end_time_hosts(t)
    \/ form = "hosts" /\ on_button_clicked_hosts
    \/ form = "hosts" /\
          on_add_condition_button_hosts_clicked(execution.column, "=", execution.value)
    \/ form = "jobs" /\ call_validate_condition_jobs
    \/ form = "jobs" /\ \E t \in EndTimeInputs : set_end_time_jobs(t)
    \/ form = "jobs" /\ on_button_clicked_jobs
    \/ form = "jobs" /\ add_condition_jobs(execution.column, "=", execution.value)

SpecValidate == ValidateInit /\ [][ValidateNext]_vars

(***************************************************************************)
(* The chunk size each method derives from the count of the query, for     *)
(* counts around the default target_num_chunks and small ones              *)
(***************************************************************************)
\* largest of the small counts
MaxTotalRows == 12

TotalRowsInputs == (0..MaxTotalRows) \cup {24999, 25000, 25001, 49999, 50000, 100000}
PlanTargetInputs == {1, 2, 3, target_num_chunks}

ChunkPlanInit ==
    /\ form = "hosts"
    /\ init_non_widget_variables
    /\ initialize_host_data_widgets
    /\ initialize_job_data_widgets
    /\ db_calls = <<>>
    /\ \E total_rows \in TotalRowsInputs, target \in PlanTargetInputs :
          execution = [pc |-> "counted", total_rows |-> total_rows, target_num_chunks |-> target]

plan_execute_sql_query_chunked ==
    /\ execution.pc = "counted"
    /\ execution' = [pc |-> "planned", method |-> "execute_sql_query_chunked",
                     total_rows |-> execution.total_rows,
                     target_num_chunks |-> execution.target_num_chunks,
                     chunksize |-> chunksize_chunked(execution.total_rows,
                                                     execution.target_num_chunks)]
    /\ UNCHANGED <<form, hosts_vars, jobs_vars, db_calls>>

plan_execute_sql_query_and_stream_to_disk ==
    /\ execution.pc = "counted"
    /\ execution' = [pc |-> "planned", method |-> "execute_sql_query_and_stream_to_disk",
                     total_rows |-> execution.total_rows,
                     target_num_chunks |-> execution.target_num_chunks,
                     chunksize |-> chunksize_streamed(execution.total_rows,
                                                      execution.target_num_chunks)]
    /\ UNCHANGED <<form, hosts_vars, jobs_vars, db_calls>>

ChunkPlanNext ==
    \/ plan_execute_sql_query_chunked
    \/ plan_execute_sql_query_and_stream_to_disk

SpecChunkPlan == ChunkPlanInit /\ [][ChunkPlanNext]_vars

(***************************************************************************)
(* The host form as NotebookUtilities drives it                            *)
(***************************************************************************)
(* The analyst works in both forms of the page in turn                     *)
(***************************************************************************)
\* a backend that answers with two rows
BothFormsBackends == {db \in SessionBackends : db.deletes}

\* most conditions either form holds when both are worked in
MaxBothConds == 1

\* both forms are displayed; the handlers of either may run next
BothFormsInit == Init /\ form = "hosts"

BothFormsNext ==
    \/ \E t \in EndTimeInputs : set_end_time_hosts(t)
    \/ on_button_clicked_hosts
    \/ /\ Len(where_conditions_hosts) < MaxBothConds
       /\ on_add_condition_button_hosts_clicked("host", "=", "node1")
    \/ \E selection \in SUBSET (1..Len(condition_list_hosts)) :
          on_remove_condition_button_hosts_clicked(selection)
    \/ \E db \in BothFormsBackends : on_execute_button_clicked_hosts(db)
    \/ \E t \in EndTimeInputs : set_end_time_jobs(t)
    \/ on_button_clicked_jobs
    \/ /\ Len(where_conditions_jobs) < MaxBothConds
       /\ add_condition_jobs("account", "=", "group12")
    \/ \E selection \in SUBSET (1..Len(condition_list_jobs)) : remove_condition_jobs(selection)
    \/ \E db \in BothFormsBackends : on_execute_button_clicked_jobs(db)

SpecBothForms == BothFormsInit /\ [][BothFormsNext]_vars

(***************************************************************************)
(* docker_source/classes/database_manager.py: the DataFrame backend        *)
(***************************************************************************)
\* a comparison pandas evaluates between a column value and val
compare(op, a, b) ==
    CASE op = "=" -> a = b
      [] op = "!=" -> a # b
      [] op = "<" -> a < b
      [] op = "<=" -> a <= b
      [] op = ">" -> a > b
      [] op = ">=" -> a >= b

\* the operators the loop over the conditions has a branch for
applied_operators == {"=", "!=", "<", "<=", ">", ">="}

\* result: index holds the positions of the input rows the returned frame
\* keeps, in order, and columns the columns it has; raised is the KeyError of
\* query_df[col] for a column that was not selected, or None
execute_query_on_dataframe(df, conditions, selected_columns, validate_time, start_time, end_time) ==
    LET columns == IF selected_columns = <<"*">>
                   THEN <<"host", "value", "time">> ELSE selected_columns
        has(col) == \E k \in 1..Len(columns) : columns[k] = col
        applied(c) == c[2] \in applied_operators
        local_conditions == SelectSeq(conditions, applied)
        missing == {k \in 1..Len(local_conditions) : ~has(local_conditions[k][1])}
        keep(i) ==
            /\ \A k \in 1..Len(local_conditions) :
                  compare(local_conditions[k][2], df[i][local_conditions[k][1]],
                          local_conditions[k][3])
            /\ validate_time =>
                  /\ Hours(df[i].time) >= Hours(start_time)
                  /\ Hours(df[i].time) <= Hours(end_time)
    IN  IF missing # {}
        THEN [raised |-> "KeyError: " \o local_conditions[CHOOSE k \in missing :
                                                            \A l \in missing : k <= l][1],
              index |-> <<>>, columns |-> <<>>]
        ELSE IF validate_time /\ ~has("time")
        THEN [raised |-> "KeyError: time", index |-> <<>>, columns |-> <<>>]
        ELSE [raised |-> None,
              index |-> SelectSeq([i \in 1..Len(df) |-> i], keep),
              columns |-> columns]

\* most conditions in a list given to the DataFrame backend
MaxFrameConds == 2

\* a table of host data as load_parquet_files returns it
FrameRows ==
    << [host |-> "NODE1", value |-> 5, time |-> "2024-01-01 00:00:00"],
       [host |-> "NODE2", value |-> 10, time |-> "2024-01-10 00:00:00"],
       [host |-> "NODE1", value |-> 10, time |-> "2024-02-01 12:00:00"],
       [host |-> "GPU7", value |-> 20, time |-> "2024-03-01 00:00:00"] >>

\* conditions with each operator of operators_dropdown_hosts
FrameConditions ==
    { <<"host", "=", "NODE1">>, <<"host", "!=", "NODE1">>, <<"host", "LIKE", "NODE%">>,
      <<"value", "<", 10>>, <<"value", "<=", 10>>, <<"value", ">", 10>>,
      <<"value", ">=", 10>> }
FrameConditionLists ==
    UNION {[1..n -> FrameConditions] : n \in 0..MaxFrameConds}
FrameColumns == {<<"*">>, <<"host", "value", "time">>, <<"host", "value">>}
FrameWindows ==
    { <<"2024-01-01 00:00:00", "2024-01-10 00:00:00">>,
      <<"2024-01-10 00:00:00", "2024-02-01 12:00:00">> }

FrameInit ==
    /\ form = "hosts"
    /\ init_non_widget_variables
    /\ initialize_host_data_widgets
    /\ initialize_job_data_widgets
    /\ db_calls = <<>>
    /\ \E conditions \in FrameConditionLists, selected_columns \in FrameColumns,
          validate_time \in BOOLEAN, window \in FrameWindows :
          execution = [pc |-> "asked", df |-> FrameRows, conditions |-> conditions,
                       selected_columns |-> selected_columns,
                       validate_time |-> validate_time,
                       start_time |-> window[1], end_time |-> window[2]]

call_execute_query_on_dataframe ==
    /\ execution.pc = "asked"
    /\ execution' =
          [execution EXCEPT !.pc = "answered"] @@
          [result |-> execute_query_on_dataframe(execution.df, execution.conditions,
                                                 execution.selected_columns,
                                                 execution.validate_time,
                                                 execution.start_time, execution.end_time)]
    /\ UNCHANGED <<form, hosts_vars, jobs_vars, db_calls>>

FrameNext == call_execute_query_on_dataframe

SpecFrame == FrameInit /\ [][FrameNext]_vars

\* the characters of file names and month names in code point order
code_points == ".0123456789_abcdefghijklmnopqrstuvwxyz"
code_point(c) == CHOOSE i \in 1..Len(code_points) : CharAt(code_points, i) = c

\* Python's comparison of two str: by code point, a proper prefix first
RECURSIVE str_cmp_from(_, _, _)
str_cmp_from(a, b, i) ==
    IF i > Len(a) THEN (IF i > Len(b) THEN 0 ELSE -1)
    ELSE IF i > Len(b) THEN 1
    ELSE IF code_point(CharAt(a, i)) < code_point(CharAt(b, i)) THEN -1
    ELSE IF code_point(CharAt(a, i)) > code_point(CharAt(b, i)) THEN 1
    ELSE str_cmp_from(a, b, i + 1)

str_le(a, b) == str_cmp_from(a, b, 1) <= 0

\* str.lower() of ASCII text
lower(s) == casefold(s)

\* datetime.strftime('%b%Y') in the C locale; a datetime is its year and
\* month, and NoTime stands for an argument that is None
NoTime == [year |-> 0, month |-> 0]
month_abbr ==
    <<"Jan", "Feb", "Mar", "Apr", "May", "Jun", "Jul", "Aug", "Sep", "Oct", "Nov", "Dec">>
strftime_bY(t) == month_abbr[t.month] \o ToString(t.year)

\* the keys of the files load_parquet_files reads, in the order of the
\* listing; start_time and end_time are datetimes or NoTime
load_parquet_files(file_keys, start_time, end_time) ==
    LET start_year_month == lower(strftime_bY(start_time))
        end_year_month == lower(strftime_bY(end_time))
        file_date_part(file_key) == split(file_key, "_")[4]
        loads(file_key) ==
            IF start_time # NoTime /\ end_time # NoTime
            THEN /\ str_le(start_year_month, file_date_part(file_key))
                 /\ str_le(file_date_part(file_key), end_year_month)
            ELSE TRUE
    IN  SelectSeq(file_keys, loads)

\* listings of monthly files, named <table>_ts_data_<mon><year>_anon.parquet
ParquetListings ==
    { << "host_ts_data_nov2023_anon.parquet", "host_ts_data_dec2023_anon.parquet",
         "host_ts_data_jan2024_anon.parquet", "host_ts_data_feb2024_anon.parquet",
         "host_ts_data_mar2024_anon.parquet", "host_ts_data_apr2024_anon.parquet" >>,
      << "job_ts_data_jan2024_anon.parquet", "job_ts_data_feb2024_anon.parquet",
         "job_ts_data_mar2024_anon.parquet" >> }

\* the start and end times a caller passes; a start is never after its end
ParquetTimes ==
    {NoTime} \cup {[year |-> 2023, month |-> mo] : mo \in {11, 12}}
           \cup {[year |-> 2024, month |-> mo] : mo \in 1..4}

ParquetInit ==
    /\ form = "hosts"
    /\ init_non_widget_variables
    /\ initialize_host_data_widgets
    /\ initialize_job_data_widgets
    /\ db_calls = <<>>
    /\ \E file_keys \in ParquetListings, start_time \in ParquetTimes, end_time \in ParquetTimes :
          /\ \/ start_time = NoTime
             \/ end_time = NoTime
             \/ start_time.year * 12 + start_time.month <= end_time.year * 12 + end_time.month
          /\ execution = [pc |-> "listed", file_keys |-> file_keys,
                          start_time |-> start_time, end_time |-> end_time]

call_load_parquet_files ==
    /\ execution.pc = "listed"
    /\ execution' =
          [execution EXCEPT !.pc = "loaded"] @@
          [chunks |-> load_parquet_files(execution.file_keys, execution.start_time,
                                         execution.end_time)]
    /\ UNCHANGED <<form, hosts_vars, jobs_vars, db_calls>>

ParquetNext == call_load_parquet_files

SpecParquet == ParquetInit /\ [][ParquetNext]_vars

(***************************************************************************)
NUNext ==
    \/ \E t \in EndTimeInputs : set_end_time_hosts(t)
    \/ NU_on_button_clicked_hosts
    \/ \E column \in HostColumnInputs, operator \in NUOperatorInputs, text \in HostValueInputs :
          NU_add_condition_hosts(column, operator, text)
    \/ \E selection \in SUBSET (1..Len(condition_list_hosts)) : NU_remove_condition_hosts(selection)

\* NotebookUtilities has the host form only
NUInit == Init /\ form = "hosts"

SpecNU == NUInit /\ [][NUNext]_vars

(***************************************************************************)
(* Properties                                                              *)
(***************************************************************************)
\* the entries of a list at the positions outside K, in their order
Unselected(list, K) ==
    LET kept == Ascending({i \in 1..Len(list) : i \notin K})
    IN  [k \in 1..Len(kept) |-> list[kept[k]]]

\* the values the IN textarea names
ExpectedInValues(textarea) == IF textarea = "NODE1, NODE2" THEN <<"NODE1", "NODE2">> ELSE <<>>

NotValidatedAdd == "Please enter a valid time window before adding conditions."
NotValidatedExecute == "Please enter a valid time window before executing the query."

\* C1: whatever conditions were added, the query built for the form has as
\* many %s placeholders as parameters, and the parameters are the condition
\* values in insertion order, then start and end exactly when the window is
\* Valid, then the IN values when the IN list is present.
C1_PlaceholdersMatchParams ==
    /\ form = "hosts" =>
          LET built == BuildHosts(HostsForm)
          IN  /\ count(built.query, "%s") = Len(built.params)
              /\ built.params =
                    where_conditions_values
                    \o (IF time_window_valid_hosts
                        THEN <<start_time_hosts, end_time_hosts>> ELSE <<>>)
                    \o ExpectedInValues(in_values_textarea)
    /\ form = "jobs" =>
          LET built == BuildJobs(JobsForm)
          IN  /\ count(built.query, "%s") = Len(built.params)
              /\ built.params =
                    [i \in 1..Len(where_conditions_jobs) |-> where_conditions_jobs[i][3]]
                    \o (IF time_window_valid_jobs
                        THEN <<start_time_jobs, end_time_jobs>> ELSE <<>>)
                    \o ExpectedInValues(in_values_textarea_jobs)

\* two conditions, a Valid window and an IN list, built into six parameters
C1_Witness ==
    /\ form = "hosts"
    /\ where_conditions_values = <<"NODE1", "5.5">>
    /\ time_window_valid_hosts
    /\ in_values_textarea = "NODE1, NODE2"
    /\ host_data_sql_query = BuildHosts(HostsForm)
    /\ Len(host_data_sql_query.params) = 6

\* C2: removing a selection of one or more displayed conditions leaves in the
\* store exactly the conditions that were not selected, in their order.
C2_RemoveByIdentity ==
    [][/\ \A selection \in SUBSET (1..Len(condition_list_jobs)) :
             ( /\ form = "jobs"
               /\ selection # {}
               /\ Len(condition_list_jobs) = Len(where_conditions_jobs)
               /\ remove_condition_jobs(selection) )
             => where_conditions_jobs' = Unselected(where_conditions_jobs, selection)
       /\ \A selection \in SUBSET (1..Len(condition_list_hosts)) :
             ( /\ form = "hosts"
               /\ selection # {}
               /\ Len(condition_list_hosts) = Len(where_conditions_hosts)
               /\ on_remove_condition_button_hosts_clicked(selection) )
             => where_conditions_hosts' = Unselected(where_conditions_hosts, selection)
      ]_vars

\* C3: an add while the window is not Valid shows the time-window message,
\* whatever the value (so no validator message), and leaves the condition
\* list, the displayed list and the bound values as they were.
C3_AddRefusedWithoutValidWindow ==
    [][/\ \A column \in HostColumnInputs, operator \in OperatorInputs, text \in HostValueInputs :
             ( /\ form = "hosts"
               /\ ~time_window_valid_hosts
               /\ on_add_condition_button_hosts_clicked(column, operator, text) )
             => /\ error_output_hosts' = [outputs |-> <<NotValidatedAdd>>, clear_next |-> FALSE]
                /\ UNCHANGED <<where_conditions_hosts, where_conditions_values,
                               condition_list_hosts>>
       /\ \A column \in JobColumnInputs, operator \in OperatorInputs, text \in JobValueInputs :
             ( /\ form = "jobs"
               /\ ~time_window_valid_jobs
               /\ add_condition_jobs(column, operator, text) )
             => /\ error_output_jobs' = [outputs |-> <<NotValidatedAdd>>, clear_next |-> FALSE]
                /\ UNCHANGED <<where_conditions_jobs, condition_list_jobs>>
      ]_vars

\* a condition is stored, the window is no longer Valid, and an add was refused
C3_Witness ==
    /\ form = "hosts"
    /\ ~time_window_valid_hosts
    /\ where_conditions_values = <<"NODE1">>
    /\ error_output_hosts = [outputs |-> <<NotValidatedAdd>>, clear_next |-> FALSE]

Shown(item) == [outputs |-> <<item>>, clear_next |-> FALSE]

\* C4: an execute while the window is not Valid shows the window-not-validated
\* message, makes no call to the backend (no connection, no query), and
\* leaves the stored result table as it was.
C4_ExecuteRefusedWithoutValidWindow ==
    [][/\ \A db \in Backends :
             ( /\ form = "hosts"
               /\ ~time_window_valid_hosts
               /\ on_execute_button_clicked_hosts(db) )
             => /\ output_hosts' = Shown(NotValidatedExecute)
                /\ db_calls' = <<>>
                /\ time_series_df' = time_series_df
       /\ \A db \in Backends :
             ( /\ form = "jobs"
               /\ ~time_window_valid_jobs
               /\ on_execute_button_clicked_jobs(db) )
             => /\ output_jobs' = Shown(NotValidatedExecute)
                /\ db_calls' = <<>>
                /\ account_log_df' = account_log_df
      ]_vars

\* an execution was refused while the table of an earlier execution is stored
C4_Witness ==
    /\ form = "hosts"
    /\ ~time_window_valid_hosts
    /\ output_hosts = Shown(NotValidatedExecute)
    /\ time_series_df = DataFrame(<<"row1", "row2">>)
    /\ db_calls = <<>>

\* the outcome of validating a window, from the hours between start and end
ExpectedOutcome(start, end, max_span_days) ==
    IF Hours(start) >= Hours(end) THEN "Invalid Times"
    ELSE IF (Hours(end) - Hours(start)) \div 24 > max_span_days THEN "Time Window Too Large"
    ELSE "Times Valid"

\* C5: validate sets the window state to InvalidOrder ("Invalid Times") when
\* start >= end, otherwise to WindowTooLarge ("Time Window Too Large") when
\* end - start in whole days exceeds the table's maximum, otherwise to Valid
\* ("Times Valid"); with maximum 31 the three example windows give
\* InvalidOrder, WindowTooLarge and Valid.
C5_ValidateOutcome ==
    [][/\ window_description("2024-01-10 00:00:00", "2024-01-01 00:00:00", 31) = "Invalid Times"
       /\ window_description("2024-01-01 00:00:00", "2024-03-01 00:00:00", 31) = "Time Window Too Large"
       /\ window_description("2024-01-01 00:00:00", "2024-01-10 00:00:00", 31) = "Times Valid"
       /\ (form = "hosts" /\ on_button_clicked_hosts)
          => /\ validate_button_hosts' = ExpectedOutcome(start_time_hosts, end_time_hosts, 31)
             /\ time_window_valid_hosts' = (validate_button_hosts' = "Times Valid")
       /\ (form = "jobs" /\ on_button_clicked_jobs)
          => /\ validate_button_jobs' = ExpectedOutcome(start_time_jobs, end_time_jobs, 180)
             /\ time_window_valid_jobs' = (validate_button_jobs' = "Times Valid")
      ]_vars

\* a window of 31 days and 12 hours was validated as Valid for the host table
C5_Witness ==
    /\ form = "hosts"
    /\ start_time_hosts = "2024-01-01 00:00:00"
    /\ end_time_hosts = "2024-02-01 12:00:00"
    /\ time_window_valid_hosts
    /\ validate_button_hosts = "Times Valid"
    /\ host_data_sql_query.params = <<start_time_hosts, end_time_hosts>>

\* C6: the validity state of a table changes only in a step of its validate
\* action (not when conditions are added or removed, start or end edited,
\* columns, IN list, order or limit changed, or the query executed), and
\* every validate step leaves the outcome for the start and end of that step.
C6_ValidityChangesOnlyByValidate ==
    [][/\ hosts_window' # hosts_window => on_button_clicked_hosts
       /\ jobs_window' # jobs_window => on_button_clicked_jobs
       /\ ( /\ form = "hosts"
            /\ UNCHANGED <<hosts_conditions, hosts_times, hosts_options, output_hosts>>
            /\ on_button_clicked_hosts )
          => /\ validate_button_hosts' =
                   ExpectedOutcome(start_time_hosts, end_time_hosts, MAX_DAYS_HOSTS)
             /\ time_window_valid_hosts' = (validate_button_hosts' = "Times Valid")
       /\ ( /\ form = "jobs"
            /\ UNCHANGED <<jobs_conditions, jobs_times, jobs_options, output_jobs>>
            /\ on_button_clicked_jobs )
          => /\ validate_button_jobs' =
                   ExpectedOutcome(start_time_jobs, end_time_jobs, MAX_DAYS_JOBS)
             /\ time_window_valid_jobs' = (validate_button_jobs' = "Times Valid")
      ]_vars

\* the window is still Valid after the end was edited to equal the start, a
\* condition added, a limit set and the query executed
C6_Witness ==
    /\ form = "hosts"
    /\ time_window_valid_hosts
    /\ validate_button_hosts = "Times Valid"
    /\ Hours(start_time_hosts) >= Hours(end_time_hosts)
    /\ where_conditions_values = <<"NODE1">>
    /\ limit_input = 10
    /\ time_series_df = DataFrame(<<"row1", "row2">>)

\* the value the host add handler stores for an entered text
StoredHostValue(text) == IF text = "node1" THEN "NODE1" ELSE text

\* the host conditions and their values are parallel
ParallelHosts(conditions, values) ==
    /\ Len(values) = Len(conditions)
    /\ Len(values) = count(join(" AND ", RenderConditions(conditions)), "%s")
    /\ \A i \in 1..Len(conditions) :
          /\ conditions[i][3] = "%s"
          /\ conditions[i][1] = "host" <=> values[i] = "NODE1"
          /\ conditions[i][1] = "value" <=> values[i] = "5.5"

\* C7: through every interleaving of host adds and removes the bound values
\* stay parallel to the host conditions: the same length, which is the number
\* of placeholders the conditions contribute, each value the one supplied
\* with the condition at its position; an add appends to both lists and a
\* remove deletes the same positions from both.
C7_ValuesParallelToConditions ==
    [][form = "hosts" =>
        /\ ParallelHosts(where_conditions_hosts', where_conditions_values')
        /\ \A column \in HostColumnInputs, operator \in OperatorInputs, text \in HostValueInputs :
              ( /\ on_add_condition_button_hosts_clicked(column, operator, text)
                /\ where_conditions_hosts' # where_conditions_hosts )
              => /\ where_conditions_hosts' =
                       Append(where_conditions_hosts, <<column, operator, "%s">>)
                 /\ where_conditions_values' =
                       Append(where_conditions_values, StoredHostValue(text))
        /\ \A selection \in SUBSET (1..Len(condition_list_hosts)) :
              on_remove_condition_button_hosts_clicked(selection)
              => \E K \in SUBSET (1..Len(where_conditions_hosts)) :
                    /\ where_conditions_hosts' = Unselected(where_conditions_hosts, K)
                    /\ where_conditions_values' = Unselected(where_conditions_values, K)
      ]_vars

\* after adds and a remove, one condition on value is left with its value
C7_Witness ==
    /\ form = "hosts"
    /\ where_conditions_hosts = << <<"value", "=", "%s">> >>
    /\ where_conditions_values = <<"5.5">>
    /\ condition_list_hosts = <<"value = '%s'">>

\* C8: in NotebookUtilities, after any host adds and removes the bound values
\* are as many as the host conditions, so the host query built next has as
\* many parameters as placeholders.
C8_NUValuesParallelToConditions ==
    /\ Len(where_conditions_values) = Len(where_conditions_hosts)
    /\ LET built == NU_BuildHosts(HostsForm)
       IN  count(built.query, "%s") = Len(built.params)

\* C9: with a Valid window, an add whose value fails the column's validation
\* shows the validator's message and leaves the conditions, the bound values
\* and the displayed list as they were; an add whose value passes appends
\* exactly one condition at the end and changes no stored condition (the
\* displayed list then shows the store).
C9_AddValidatesThenAppends ==
    [][/\ \A column \in HostColumnInputs, operator \in OperatorInputs, text \in HostValueInputs :
             ( /\ form = "hosts"
               /\ time_window_valid_hosts
               /\ on_add_condition_button_hosts_clicked(column, operator, text) )
             => IF column = "host" /\ text = "5.5"
                THEN /\ error_output_hosts' = Shown(validate_host("5.5"))
                     /\ UNCHANGED hosts_conditions
                ELSE IF column = "value" /\ text = "node1"
                THEN /\ error_output_hosts' = Shown(validate_value("NODE1"))
                     /\ UNCHANGED hosts_conditions
                ELSE /\ where_conditions_hosts' =
                           Append(where_conditions_hosts, <<column, operator, "%s">>)
                     /\ where_conditions_values' =
                           Append(where_conditions_values, StoredHostValue(text))
                     /\ Len(condition_list_hosts') = Len(where_conditions_hosts')
       /\ \A column \in JobColumnInputs, operator \in OperatorInputs, text \in JobValueInputs :
             ( /\ form = "jobs"
               /\ time_window_valid_jobs
               /\ add_condition_jobs(column, operator, text) )
             => IF column = "account" /\ text = "5.5"
                THEN /\ error_output_jobs' = Shown(validate_account("5.5"))
                     /\ UNCHANGED jobs_conditions
                ELSE IF column = "ncores" /\ text = "group12"
                THEN /\ error_output_jobs' = Shown(validate_numeric_columns("ncores", "GROUP12"))
                     /\ UNCHANGED jobs_conditions
                ELSE /\ where_conditions_jobs' =
                           Append(where_conditions_jobs,
                                  <<column, operator, IF text = "group12" THEN "GROUP12" ELSE text>>)
                     /\ Len(condition_list_jobs') = Len(where_conditions_jobs')
      ]_vars

\* a value was rejected for the host column while a condition is stored
C9_Witness ==
    /\ form = "hosts"
    /\ time_window_valid_hosts
    /\ where_conditions_values = <<"NODE1">>
    /\ condition_list_hosts = <<"host = 'NODE1'">>
    /\ validate_host("5.5") # None
    /\ error_output_hosts = Shown(validate_host("5.5"))

\* C10: the query built for a form holds the clause <time column> BETWEEN %s
\* AND %s (time for host_data, start_time for job_data) exactly when the
\* window is Valid, after the explicit conditions, with start then end as
\* its parameters; for job_data with (account, =, GROUP12) and the Valid
\* window 2024-01-01..2024-01-10 the query is SELECT * FROM job_data WHERE
\* account = %s AND start_time BETWEEN %s AND %s with [GROUP12, start, end].
C10_TimeClauseIffValid ==
    /\ form = "hosts" =>
          LET built == BuildHosts(HostsForm)
              n == Len(where_conditions_hosts)
          IN  /\ Contains(built.query, "time BETWEEN %s AND %s") <=> time_window_valid_hosts
              /\ time_window_valid_hosts =>
                    /\ startswith(built.query,
                                  "SELECT * FROM host_data WHERE "
                                  \o join(" AND ", RenderConditions(where_conditions_hosts)
                                                   \o <<"time BETWEEN %s AND %s">>))
                    /\ built.params[n + 1] = start_time_hosts
                    /\ built.params[n + 2] = end_time_hosts
    /\ form = "jobs" =>
          LET built == BuildJobs(JobsForm)
              n == Len(where_conditions_jobs)
          IN  /\ Contains(built.query, "start_time BETWEEN %s AND %s") <=> time_window_valid_jobs
              /\ time_window_valid_jobs =>
                    /\ startswith(built.query,
                                  "SELECT * FROM job_data WHERE "
                                  \o join(" AND ", [i \in 1..n |->
                                                      where_conditions_jobs[i][1] \o " "
                                                      \o where_conditions_jobs[i][2] \o " %s"]
                                                   \o <<"start_time BETWEEN %s AND %s">>))
                    /\ built.params[n + 1] = start_time_jobs
                    /\ built.params[n + 2] = end_time_jobs
              /\ ( /\ where_conditions_jobs = << <<"account", "=", "GROUP12">> >>
                   /\ time_window_valid_jobs
                   /\ start_time_jobs = "2024-01-01 00:00:00"
                   /\ end_time_jobs = "2024-01-10 00:00:00"
                   /\ in_values_textarea_jobs = "" )
                 => built = [query |-> "SELECT * FROM job_data WHERE account = %s AND start_time BETWEEN %s AND %s",
                             params |-> <<"GROUP12", "2024-01-01 00:00:00", "2024-01-10 00:00:00">>]

\* the job form shows the query of the example
C10_Witness ==
    /\ form = "jobs"
    /\ time_window_valid_jobs
    /\ where_conditions_jobs = << <<"account", "=", "GROUP12">> >>
    /\ query_output_jobs =
          Shown([query |-> "SELECT * FROM job_data WHERE account = %s AND start_time BETWEEN %s AND %s",
                 params |-> <<"GROUP12", "2024-01-01 00:00:00", "2024-01-10 00:00:00">>])

\* a selection that is exactly {*} or a non-empty subset of the table's columns
ValidSelection(columns, schema) ==
    \/ columns = <<"*">>
    \/ /\ columns # <<>>
       /\ \A i \in 1..Len(columns) : columns[i] \in schema \ {"*", "None"}

\* C11: selecting columns that are neither exactly {*} nor a non-empty subset
\* of the table's schema is rejected as a whole: no query text is built from
\* the selection, so the stored host query is left as it was and the job
\* display does not show a query built from it.
C11_InvalidSelectionRejected ==
    [][/\ \A columns \in HostSelectionInputs :
             ( /\ form = "hosts"
               /\ ~ValidSelection(columns, {all_columns[i] : i \in 1..Len(all_columns)})
               /\ observer_host_data_columns_dropdown(columns) )
             => host_data_sql_query' = host_data_sql_query
       /\ \A columns \in JobSelectionInputs :
             ( /\ form = "jobs"
               /\ ~ValidSelection(columns, valid_columns)
               /\ observer_job_data_columns_dropdown(columns) )
             => query_output_jobs' # Shown(BuildJobs(JobsForm'))
      ]_vars

\* the clause the claim expects for an IN column and its listed values
ExpectedInClause(in_column, values) ==
    in_column \o " IN (" \o join(", ", [i \in 1..Len(values) |-> "%s"]) \o ")"

\* C12: the built query holds an IN clause exactly when an IN column is
\* chosen and the value list is non-empty; the clause is <in_column> IN
\* (%s, ...) with one placeholder per listed value, and the listed values
\* end the parameter list in list order.
C12_InClauseIffChosenAndListed ==
    /\ form = "hosts" =>
          LET built == BuildHosts(HostsForm)
              values == ExpectedInValues(in_values_textarea)
              n == Len(built.params)
          IN  /\ Contains(built.query, " IN (")
                    <=> (in_values_dropdown # "None" /\ values # <<>>)
              /\ Contains(built.query, " IN (") =>
                    /\ Contains(built.query, ExpectedInClause(in_values_dropdown, values))
                    /\ n >= Len(values)
                    /\ SubSeq(built.params, n - Len(values) + 1, n) = values
    /\ form = "jobs" =>
          LET built == BuildJobs(JobsForm)
              values == ExpectedInValues(in_values_textarea_jobs)
              n == Len(built.params)
          IN  /\ Contains(built.query, " IN (")
                    <=> (in_values_dropdown_jobs # "None" /\ values # <<>>)
              /\ Contains(built.query, " IN (") =>
                    /\ Contains(built.query, ExpectedInClause(in_values_dropdown_jobs, values))
                    /\ n >= Len(values)
                    /\ SubSeq(built.params, n - Len(values) + 1, n) = values

endswith(s, suffix) ==
    /\ Len(s) >= Len(suffix)
    /\ SubSeq(s, Len(s) - Len(suffix) + 1, Len(s)) = suffix

without_suffix(s, suffix) == SubSeq(s, 1, Len(s) - Len(suffix))

\* the text is the head, then the WHERE clause iff filtered, then the ORDER BY
\* clause iff ordered, then the LIMIT clause iff limited, and nothing else
TextInOrder(text, head, filtered, order_by, direction, limit) ==
    LET limit_clause == IF limit > 0 THEN " LIMIT " \o ToString(limit) ELSE ""
        order_clause == IF order_by # "None"
                        THEN " ORDER BY " \o order_by \o " " \o direction ELSE ""
        up_to_order == without_suffix(text, limit_clause)
        up_to_where == without_suffix(up_to_order, order_clause)
    IN  /\ endswith(text, limit_clause)
        /\ Contains(text, " LIMIT ") <=> limit > 0
        /\ endswith(up_to_order, order_clause)
        /\ Contains(text, " ORDER BY ") <=> order_by # "None"
        /\ ~Contains(up_to_where, " ORDER BY ") /\ ~Contains(up_to_where, " LIMIT ")
        /\ IF filtered
           THEN startswith(up_to_where, head \o " WHERE ") /\ Len(up_to_where) > Len(head) + 7
           ELSE up_to_where = head

\* C13: the built text is SELECT [DISTINCT] <cols> FROM <table>, then a WHERE
\* clause only when a condition, a Valid window or an IN list exists, then
\* ORDER BY <column> <direction> only when an order-by column is set, then
\* LIMIT <n> only when the limit is positive; with none of them it is exactly
\* SELECT <cols> FROM <table> with no parameters.
C13_TextInOrder ==
    /\ form = "hosts" =>
          LET built == BuildHosts(HostsForm)
              head == "SELECT " \o (IF distinct_checkbox THEN "DISTINCT " ELSE "")
                      \o join(", ", host_data_columns_dropdown) \o " FROM host_data"
              filtered == \/ where_conditions_hosts # <<>>
                          \/ time_window_valid_hosts
                          \/ ExpectedInValues(in_values_textarea) # <<>>
          IN  /\ TextInOrder(built.query, head, filtered, order_by_dropdown,
                             order_by_direction_dropdown, limit_input)
              /\ (~filtered /\ order_by_dropdown = "None" /\ limit_input = 0 /\ ~distinct_checkbox)
                 => built = [query |-> "SELECT " \o join(", ", host_data_columns_dropdown)
                                       \o " FROM host_data",
                             params |-> <<>>]
    /\ form = "jobs" =>
          LET built == BuildJobs(JobsForm)
              head == "SELECT " \o (IF distinct_checkbox_jobs THEN "DISTINCT " ELSE "")
                      \o join(", ", job_data_columns_dropdown) \o " FROM job_data"
              filtered == \/ where_conditions_jobs # <<>>
                          \/ time_window_valid_jobs
                          \/ ExpectedInValues(in_values_textarea_jobs) # <<>>
          IN  /\ TextInOrder(built.query, head, filtered, order_by_dropdown_jobs,
                             order_by_direction_dropdown_jobs, limit_input_jobs)
              /\ (~filtered /\ order_by_dropdown_jobs = "None" /\ limit_input_jobs = 0
                  /\ ~distinct_checkbox_jobs)
                 => built = [query |-> "SELECT " \o join(", ", job_data_columns_dropdown)
                                       \o " FROM job_data",
                             params |-> <<>>]

\* the host form shows a query with every clause
C13_Witness ==
    /\ form = "hosts"
    /\ distinct_checkbox /\ order_by_dropdown = "host" /\ limit_input = 10
    /\ query_output_hosts =
          Shown([query |-> "SELECT DISTINCT host, value FROM host_data WHERE host = %s AND time BETWEEN %s AND %s ORDER BY host DESC LIMIT 10",
                 params |-> <<"NODE1", "2024-01-01 00:00:00", "2024-01-10 00:00:00">>])

\* the inputs of the query the claim lists, per form
QueryInputsHosts ==
    <<where_conditions_hosts, where_conditions_values, validate_button_hosts,
      host_data_columns_dropdown, distinct_checkbox, in_values_dropdown, in_values_textarea,
      order_by_dropdown, order_by_direction_dropdown, limit_input>>

QueryInputsJobs ==
    <<where_conditions_jobs, validate_button_jobs, job_data_columns_dropdown,
      distinct_checkbox_jobs, in_values_dropdown_jobs, in_values_textarea_jobs,
      order_by_dropdown_jobs, order_by_direction_dropdown_jobs, limit_input_jobs>>

\* C14: after every action that changes an input of the query (a condition,
\* the window validation, the selected columns, distinct, the IN column or
\* values, the order-by column or direction, the limit), the displayed query
\* and the stored host query are what the builder returns for the form as
\* the action leaves it.
C14_DisplayedQueryIsCurrent ==
    [][/\ (form = "hosts" /\ QueryInputsHosts' # QueryInputsHosts) =>
             /\ query_output_hosts' = Shown(BuildHosts(HostsForm'))
             /\ host_data_sql_query' = BuildHosts(HostsForm')
       /\ (form = "jobs" /\ QueryInputsJobs' # QueryInputsJobs) =>
             query_output_jobs' = Shown(BuildJobs(JobsForm'))
      ]_vars

\* the display strings of the stored conditions with their actual values
toDisplayStrings(conditions, values) ==
    [i \in 1..Len(conditions) |->
        conditions[i][1] \o " " \o conditions[i][2] \o " '" \o values[i] \o "'"]

\* C15: after any sequence of adds and removes the displayed condition list
\* has one entry per stored condition, in store order, each rendered as
\* {column} {operator} '{value}' with the condition's actual value.
C15_ConditionListDerivedFromStore ==
    /\ form = "hosts" =>
          /\ Len(condition_list_hosts) = Len(where_conditions_hosts)
          /\ Len(where_conditions_values) = Len(where_conditions_hosts)
          /\ condition_list_hosts = toDisplayStrings(where_conditions_hosts, where_conditions_values)
    /\ form = "jobs" =>
          condition_list_jobs =
             toDisplayStrings(where_conditions_jobs,
                              [i \in 1..Len(where_conditions_jobs) |-> where_conditions_jobs[i][3]])

Streamed ==
    /\ execution.pc = "returned"
    /\ execution.method = "execute_sql_query_and_stream_to_disk"

InMemory ==
    /\ execution.pc = "returned"
    /\ execution.method = "execute_sql_query_chunked"

\* the warning of a stop at batch k (batches are numbered from 0)
DiskWarning(k) == "Not enough disk space to write chunk " \o ToString(k) \o ". Ending process."

\* what the claims expect a streamed execution to return: the paths of the
\* files written, with the state of the execution
Manifest(state, files) ==
    [kind |-> state, rows |-> [i \in 1..Len(files) |-> files[i].file_path]]

\* C16: when the disk-space check first fails for a batch, the streamed
\* execution stops without raising, writes no further file, and returns the
\* manifest of exactly the files written before that batch with state
\* PartiallyCompleted and a warning; a failure on the second batch leaves a
\* manifest of exactly one file.
C16_DiskExhaustionReturnsManifest ==
    \A k \in 0..MaxRows :
       (Streamed /\ execution.run.printed = <<DiskWarning(k)>>) =>
          /\ Len(execution.run.files) = k
          /\ execution.run.result = Manifest("PartiallyCompleted", execution.run.files)

\* the bytes of the first k files of a list
RECURSIVE BytesWritten(_, _)
BytesWritten(files, k) ==
    IF k = 0 THEN 0 ELSE Len(files[k].content) + BytesWritten(files, k - 1)

\* C17: a streamed execution writes a batch file only if the bytes written so
\* far plus the batch's size is strictly less than the free disk space probed
\* at the start, so after each file the total written is strictly less than
\* the probed free space.
C17_WrittenBelowFreeSpace ==
    Streamed =>
       \A k \in 1..Len(execution.run.files) :
          /\ BytesWritten(execution.run.files, k - 1) + Len(execution.run.files[k].content)
                < execution.disk.free
          /\ BytesWritten(execution.run.files, k) < execution.disk.free

\* two batches of 7 bytes are written into 16 free bytes and the third is not
C17_Witness ==
    /\ Streamed
    /\ execution.disk.free = 16
    /\ execution.db.rows = <<"a", "a", "a">>
    /\ Len(execution.run.files) = 2
    /\ BytesWritten(execution.run.files, 2) = 14
    /\ execution.run.printed = <<DiskWarning(2)>>

\* a backend error happened during the execution: no connection, a rejected
\* query, or a fetch that raised
BackendError ==
    \/ ~execution.db.connect
    \/ ~execution.db.query_ok
    \/ execution.run.printed = <<"An error occurred: fetch failed">>

\* C18: a backend error ends the execution as Failed with no partial result:
\* the caller receives the failure value (None) and no file is left; and an
\* execution without a backend error returns something else, so the caller
\* can tell Failed from PartiallyCompleted and from Completed.
C18_BackendErrorIsFailed ==
    execution.pc = "returned" =>
       /\ BackendError =>
             /\ execution.run.result = NoneFrame
             /\ Streamed => execution.run.files = <<>>
       /\ ~BackendError => execution.run.result # NoneFrame

\* C19: each execution opens exactly one backend connection, and when it has
\* returned the connection has been released, whether it completed, failed
\* or stopped early on disk exhaustion.
C19_ConnectionReleased ==
    execution.pc = "returned" =>
       /\ Cardinality({i \in 1..Len(execution.run.calls) :
                          execution.run.calls[i].op = "connect"}) = 1
       /\ execution.db.connect => execution.run.connection = "closed"

\* C20: an in-memory execution that meets no backend error, whatever the size
\* of the result, the empty one included, completes: it returns the table of
\* all fetched rows in fetch order, and after each batch the progress count
\* is the number of rows fetched so far.
C20_InMemoryCompletes ==
    (InMemory /\ ~BackendError) =>
       /\ execution.run.result = DataFrame(execution.db.rows)
       /\ execution.run.printed = <<>>
       /\ \A k \in 1..Len(execution.run.progress) :
             /\ execution.run.progress[k] <= Len(execution.db.rows)
             /\ k > 1 => execution.run.progress[k] > execution.run.progress[k - 1]
       /\ execution.db.rows # <<>> =>
             execution.run.progress[Len(execution.run.progress)] = Len(execution.db.rows)

\* the chunk size the claims state for a count and a target
ExpectedChunkSize(total_rows, target) ==
    IF total_rows <= target THEN total_rows
    ELSE IF total_rows \div target >= 1 THEN total_rows \div target ELSE 1

\* C21: in both methods the chunk size is the count when the count is at most
\* the target, and max(1, count integer-divided by target) otherwise;
\* (100000, 25000) gives 4 and (10, 25000) gives 10.
C21_ChunkSizeAsPlanned ==
    execution.pc = "planned" =>
       /\ execution.chunksize =
             ExpectedChunkSize(execution.total_rows, execution.target_num_chunks)
       /\ (execution.total_rows = 100000 /\ execution.target_num_chunks = 25000)
             => execution.chunksize = 4
       /\ (execution.total_rows = 10 /\ execution.target_num_chunks = 25000)
             => execution.chunksize = 10

\* C22: every chunk size is at least 1, for every count the counting query
\* can return, 0 included, and every target of at least 1.
C22_ChunkSizeAtLeastOne ==
    execution.pc = "planned" => execution.chunksize >= 1

\* what the machine may report as available memory, and the bytes a row is
\* estimated at; the code reads neither
AvailableMemoryInputs == {1, 1000000}
RowByteEstimates == {8, 64}

\* DiskStream is chosen when chunk size times the per-row estimate exceeds 0.8
\* times the available memory
DiskStreamChosen(total_rows, row_bytes, available_memory) ==
    10 * (chunksize_chunked(total_rows, target_num_chunks) * row_bytes) > 8 * available_memory

\* C23: the strategy is DiskStream exactly when the estimated chunk bytes
\* exceed 0.8 times the available memory, and an execute action runs the
\* chosen strategy: when DiskStream is chosen the result is not fetched into
\* the stored table, and when InMemory is chosen it is.
C23_ExecuteRunsChosenStrategy ==
    [][\A db \in Backends, available_memory \in AvailableMemoryInputs, row_bytes \in RowByteEstimates :
          ( /\ form = "hosts"
            /\ time_window_valid_hosts
            /\ delete_query_results_file(db) /\ db.connect /\ db.query_ok
            /\ db.fetch_fails_at = 0 /\ db.rows # <<>>
            /\ on_execute_button_clicked_hosts(db) )
          => IF DiskStreamChosen(Len(db.rows), row_bytes, available_memory)
             THEN time_series_df' # DataFrame(db.rows)
             ELSE time_series_df' = DataFrame(db.rows)
      ]_vars

\* the texts of IdentifierTexts in which every comma-separated token, trimmed
\* and whatever its case, is the column's prefix followed by digits
AcceptedTexts(column) ==
    IF column = "jid" THEN {"JOB1,JOB23", "job1", " Job1 , job23 "}
    ELSE IF column = "jobname" THEN {"JOBNAME3", "jobname3, JOBNAME4"}
    ELSE IF column \in {"host", "host_list"} THEN {"NODE1", "node1,NODE22"}
    ELSE IF column = "username" THEN {"USER7", "user7"}
    ELSE IF column = "account" THEN {"GROUP12"}
    ELSE {}

\* the upper-case form of the accepted texts
UpperCaseOf(text) ==
    IF text = "job1" THEN "JOB1"
    ELSE IF text = " Job1 , job23 " THEN " JOB1 , JOB23 "
    ELSE IF text = "jobname3, JOBNAME4" THEN "JOBNAME3, JOBNAME4"
    ELSE IF text = "node1,NODE22" THEN "NODE1,NODE22"
    ELSE IF text = "user7" THEN "USER7"
    ELSE text

\* C24: the validator accepts a text for an identifier column exactly when
\* every comma-separated token, trimmed and case-insensitively, is the
\* column's prefix (JOB, JOBNAME, NODE, NODE, USER, GROUP) followed by one or
\* more digits (JOB1,JOB23 is accepted for jid, JOB is not), and the value
\* stored for an accepted identifier condition is the text in upper case.
C24_IdentifierValidation ==
    /\ execution.pc = "validated" =>
          (execution.error_message = None <=> execution.value \in AcceptedTexts(execution.column))
    /\ form = "hosts" =>
          \A i \in 1..Len(where_conditions_hosts) :
             /\ where_conditions_hosts[i][1] = execution.column
             /\ execution.value \in AcceptedTexts(execution.column)
             /\ where_conditions_values[i] = UpperCaseOf(execution.value)
    /\ form = "jobs" =>
          \A i \in 1..Len(where_conditions_jobs) :
             /\ where_conditions_jobs[i][1] = execution.column
             /\ execution.value \in AcceptedTexts(execution.column)
             /\ where_conditions_jobs[i][3] = UpperCaseOf(execution.value)

\* a mixed-case jid list was accepted by the validator and stored in upper case
C24_Witness ==
    /\ form = "jobs"
    /\ execution.pc = "validated"
    /\ execution.column = "jid" /\ execution.value = " Job1 , job23 "
    /\ execution.error_message = None
    /\ where_conditions_jobs = << <<"jid", "=", " JOB1 , JOB23 ">> >>

\* a window that passes validation: start before end, at most max_span_days
\* whole days long
WithinSpan(start, end, max_span_days) ==
    /\ Hours(start) < Hours(end)
    /\ Hours(end) - Hours(start) < (max_span_days + 1) * 24

\* the start and end a query with a time-range clause carries: the two
\* parameters after the n condition values
TimedWithinSpan(built, clause, n, max_span_days) ==
    Contains(built.query, clause)
       => WithinSpan(built.params[n + 1], built.params[n + 2], max_span_days)

\* C25: in every reachable state, also after start or end were edited after a
\* successful validation, every query with a time-range clause that is built
\* for display (the displayed query) or for execution (the query the builder
\* returns now, and every query the backend received) carries a start before
\* its end and a span of at most the table's max_span_days whole days.
C25_TimeClauseWithinSpan ==
    /\ form = "hosts" =>
          /\ TimedWithinSpan(host_data_sql_query, "time BETWEEN %s AND %s",
                             Len(where_conditions_values), MAX_DAYS_HOSTS)
          /\ TimedWithinSpan(BuildHosts(HostsForm), "time BETWEEN %s AND %s",
                             Len(where_conditions_values), MAX_DAYS_HOSTS)
          /\ \A i \in 1..Len(db_calls) :
                TimedWithinSpan(db_calls[i], "time BETWEEN %s AND %s",
                                Len(where_conditions_values), MAX_DAYS_HOSTS)
    /\ form = "jobs" =>
          /\ TimedWithinSpan(BuildJobs(JobsForm), "start_time BETWEEN %s AND %s",
                             Len(where_conditions_jobs), MAX_DAYS_JOBS)
          /\ \A i \in 1..Len(db_calls) :
                TimedWithinSpan(db_calls[i], "start_time BETWEEN %s AND %s",
                                Len(where_conditions_jobs), MAX_DAYS_JOBS)

\* the calls of db_calls that carry a query to the backend
QueriesSent == {i \in 1..Len(db_calls) : db_calls[i].op # "connect"}

\* C26: in every reachable state the validity flag of a table is true exactly
\* when the description of its validate button is "Times Valid"; so the gate
\* of the execute handler (the flag) and the time-clause test of the builder
\* (the description) agree, and every query the backend receives contains the
\* time-range clause.
C26_FlagIffTimesValid ==
    /\ time_window_valid_hosts <=> validate_button_hosts = "Times Valid"
    /\ time_window_valid_jobs <=> validate_button_jobs = "Times Valid"
    /\ form = "hosts" =>
          /\ time_window_valid_hosts
                <=> Contains(BuildHosts(HostsForm).query, " WHERE time BETWEEN %s AND %s")
          /\ \A i \in QueriesSent : Contains(db_calls[i].query, " WHERE time BETWEEN %s AND %s")
    /\ form = "jobs" =>
          /\ time_window_valid_jobs
                <=> Contains(BuildJobs(JobsForm).query, " WHERE start_time BETWEEN %s AND %s")
          /\ \A i \in QueriesSent :
                Contains(db_calls[i].query, " WHERE start_time BETWEEN %s AND %s")

\* the host form after a Valid validation and an execution that reached the
\* backend
C26_Witness ==
    /\ form = "hosts"
    /\ time_window_valid_hosts
    /\ validate_button_hosts = "Times Valid"
    /\ Len(db_calls) = 3
    /\ db_calls[3].op = "read_sql"
    /\ db_calls[3].query = "SELECT * FROM host_data WHERE time BETWEEN %s AND %s"

\* a backend on which an execution fails: the connection cannot be opened, or
\* the backend rejects the query
Failing(db) == ~db.connect \/ ~db.query_ok

\* C27: an execute action that fails (connection failure or backend error)
\* leaves the stored result table of its form (time_series_df or
\* account_log_df) as it was before the action, and after every step the
\* stored result of each form is a table, never None.
C27_FailedExecuteKeepsResult ==
    [][/\ \A db \in Backends :
             /\ (form = "hosts" /\ Failing(db) /\ on_execute_button_clicked_hosts(db))
                   => time_series_df' = time_series_df
             /\ (form = "jobs" /\ Failing(db) /\ on_execute_button_clicked_jobs(db))
                   => account_log_df' = account_log_df
       /\ time_series_df'.kind = "DataFrame"
       /\ account_log_df'.kind = "DataFrame"
      ]_vars

\* what C28 names of each table: condition list, bound values, window
\* validity state, stored result
hosts_session == <<where_conditions_hosts, where_conditions_values, condition_list_hosts,
                   time_window_valid_hosts, validate_button_hosts, time_series_df>>
jobs_session == <<where_conditions_jobs, condition_list_jobs,
                  time_window_valid_jobs, validate_button_jobs, account_log_df>>

\* C28: the host-table and job-table sessions are independent: a step of an
\* add-condition, remove-condition, validate or execute action on one table
\* (any step that changes something of that table) leaves the other table's
\* condition list, bound values, window validity state and stored result
\* unchanged.
C28_SessionsIndependent ==
    [][/\ hosts_vars' # hosts_vars => jobs_session' = jobs_session
       /\ jobs_vars' # jobs_vars => hosts_session' = hosts_session
      ]_vars

\* both tables hold a condition, a Valid window and an executed result, and
\* the job table was executed last
C28_Witness ==
    /\ where_conditions_hosts # <<>>
    /\ where_conditions_values = <<"NODE1">>
    /\ time_window_valid_hosts
    /\ time_series_df.rows # <<>>
    /\ where_conditions_jobs = << <<"account", "=", "GROUP12">> >>
    /\ time_window_valid_jobs
    /\ account_log_df.rows # <<>>
    /\ Len(db_calls) = 3
    /\ Contains(db_calls[3].query, "FROM job_data")

\* SQL LIKE for a pattern that is literal text with at most a closing %
sql_like(text, pattern) ==
    IF endswith(pattern, "%") THEN startswith(text, without_suffix(pattern, "%"))
    ELSE text = pattern

\* the row satisfies the condition, for each operator the picker offers
Satisfies(row, condition) ==
    LET a == row[condition[1]]
        b == condition[3]
    IN  CASE condition[2] = "=" -> a = b
          [] condition[2] = "!=" -> a # b
          [] condition[2] = "<" -> a < b
          [] condition[2] = ">" -> b < a
          [] condition[2] = "<=" -> ~(b < a)
          [] condition[2] = ">=" -> ~(a < b)
          [] condition[2] = "LIKE" -> sql_like(a, b)

\* the positions of the rows a query must return
ExpectedRows(df, conditions, validate_time, start_time, end_time) ==
    {i \in 1..Len(df) :
        /\ \A k \in 1..Len(conditions) : Satisfies(df[i], conditions[k])
        /\ validate_time => /\ Hours(start_time) <= Hours(df[i].time)
                            /\ Hours(df[i].time) <= Hours(end_time)}

\* C29: execute_query_on_dataframe returns exactly the rows of the input
\* that satisfy every condition of the list, for each operator the picker
\* offers (=, !=, <, >, <=, >=, LIKE), and that lie within [start, end] when
\* the time filter is on; no condition of the list is ignored.
C29_FrameQueryReturnsMatchingRows ==
    execution.pc = "answered" =>
       /\ execution.result.raised = None
       /\ {execution.result.index[k] : k \in 1..Len(execution.result.index)}
             = ExpectedRows(execution.df, execution.conditions, execution.validate_time,
                            execution.start_time, execution.end_time)

\* the month a listed file holds, counted in months
MonthOfFile(file_key) ==
    CASE Contains(file_key, "nov2023") -> 2023 * 12 + 11
      [] Contains(file_key, "dec2023") -> 2023 * 12 + 12
      [] Contains(file_key, "jan2024") -> 2024 * 12 + 1
      [] Contains(file_key, "feb2024") -> 2024 * 12 + 2
      [] Contains(file_key, "mar2024") -> 2024 * 12 + 3
      [] Contains(file_key, "apr2024") -> 2024 * 12 + 4

\* C30: load_parquet_files called with a start time and an end time loads
\* exactly the listed files whose month and year lie chronologically between
\* the start month and the end month inclusive, and no other file; with no
\* date range it loads every listed file.
C30_LoadsFilesOfTheRange ==
    execution.pc = "loaded" =>
       LET start_time == execution.start_time
           end_time == execution.end_time
           file_keys == execution.file_keys
           loaded == {execution.chunks[k] : k \in 1..Len(execution.chunks)}
           listed == {file_keys[k] : k \in 1..Len(file_keys)}
       IN  /\ (start_time # NoTime /\ end_time # NoTime) =>
                 loaded = {f \in listed :
                             /\ start_time.year * 12 + start_time.month <= MonthOfFile(f)
                             /\ MonthOfFile(f) <= end_time.year * 12 + end_time.month}
           /\ (start_time = NoTime /\ end_time = NoTime) => loaded = listed

====
